---- MODULE Spec2Model ----
(***************************************************************************)
(* Payment reconciliation engine: the idempotent ingestion path            *)
(* (TransactionProcessor.processTransaction), refunds, partial payments    *)
(* and the HTTP error mapping, over a PostgreSQL store.                    *)
(*                                                                         *)
(* Storage model.  The code opens every unit with a plain BEGIN, so the    *)
(* units run at the server's default isolation level, READ COMMITTED:      *)
(*   - a SELECT sees the committed tables plus the unit's own writes;      *)
(*   - the writes of a unit stay in its private write set (uow) until      *)
(*     COMMIT publishes all of them at once, or ROLLBACK drops them;       *)
(*   - an INSERT of a key that another open unit has inserted waits for    *)
(*     that unit to end (UNIQUE index), and fails with SQLSTATE 23505      *)
(*     when the key is committed;                                          *)
(*   - an UPDATE of a row that another open unit has updated waits for     *)
(*     that unit to end (row lock).                                        *)
(* Each action is one SQL statement together with the JavaScript that runs *)
(* up to the next await.  Amounts are whole numbers of minor units.        *)
(* The tables carry every column the statements name.                      *)
(***************************************************************************)
EXTENDS Integers, Sequences, FiniteSets, TLC

\* ------------------------------------------------------------------ bounds

\* Number of concurrent callers (connections taken from the pool); each
\* performs one call.
NumCallers == 2

Callers == 1 .. NumCallers

\* The id of a transaction applied before the callers start (used by the
\* specification that starts from a store holding one applied transaction).
SeedId == NumCallers + 1

\* gen_random_uuid() never repeats and its values carry no order.  Every
\* caller inserts at most one transactions row, and the id generated for the
\* row of caller p is written p.
TxnIds == Callers \cup {SeedId}

Keys == {"k1", "k2"}

\* "" stands for a missing (undefined / null / empty) account id.
NoAccount == ""

\* NULL of SQL, for a text column and for a transaction id.
NULL == "NULL"

NoId == 0

\* A nullable DECIMAL is <<>> (NULL) or <<v>>.
NullNum == <<>>

\* ---------------------------------------------------------------- payloads

Payload(s, d, a, n) ==
  [source_account_id |-> s, destination_account_id |-> d, amount |-> a, isNumber |-> n]

\* The request bodies the callers submit.  isNumber = FALSE is an amount
\* sent as a numeric string ("1"): typeof amount is then 'string'.
Payloads ==
  { Payload("A", "B", 1, TRUE),
    Payload("B", "A", 2, TRUE),
    Payload("A", "B", 0, TRUE),
    Payload("A", "B", -1, TRUE),
    Payload("A", "A", 1, TRUE),
    Payload(NoAccount, "B", 1, TRUE),
    Payload("A", "B", 1, FALSE) }

RefundAmounts == {0, 1, 2}

PaidAmounts == {1, 2}

\* ------------------------------------------------------------------ errors

E_MISSING   == [code |-> "",      message |-> "Missing account IDs"]
E_SAME      == [code |-> "",      message |-> "Cannot transfer to same account"]
E_AMOUNT    == [code |-> "",      message |-> "Invalid amount"]
E_NOTFOUND  == [code |-> "",      message |-> "Transaction not found"]
E_UNIQUE    == [code |-> "23505", message |-> "duplicate key value violates unique constraint"]
E_CHECK     == [code |-> "23514", message |-> "violates check constraint"]
E_INFRA     == [code |-> "08006", message |-> "Connection terminated unexpectedly"]
NoError     == [code |-> "",      message |-> ""]

\* String.prototype.includes on the messages above (case-sensitive).
MsgIncludes(message, needle) ==
  CASE needle = "not found" -> message = E_NOTFOUND.message
    [] needle = "Invalid"   -> message = E_AMOUNT.message
    [] needle = "Missing"   -> message = E_MISSING.message
    [] OTHER                -> FALSE

\* ------------------------------------------------- validation (pure code)

\* validateTransaction without the same-account test.
validateTransaction_NoSameAccountTest(transaction) ==
  IF transaction.source_account_id = NoAccount
     \/ transaction.destination_account_id = NoAccount
  THEN E_MISSING
  ELSE IF ~transaction.isNumber \/ transaction.amount <= 0
  THEN E_AMOUNT
  ELSE NoError

\* TransactionProcessor.validateTransaction: the error it throws, or NoError.
validateTransaction(transaction) ==
  IF transaction.source_account_id = NoAccount
     \/ transaction.destination_account_id = NoAccount
  THEN E_MISSING
  ELSE IF transaction.source_account_id = transaction.destination_account_id
  THEN E_SAME
  ELSE IF ~transaction.isNumber \/ transaction.amount <= 0
  THEN E_AMOUNT
  ELSE NoError

\* utils/validation.js validateTransaction (Express middleware): the list of
\* errors it collects; a non-empty list is answered with status 400.
\* (!amount is true for 0; a non-empty numeric string is truthy and is
\* compared as a number.)
middlewareErrors(transaction) ==
  (IF transaction.source_account_id = NoAccount
     THEN <<"source_account_id is required">> ELSE <<>>)
  \o (IF transaction.destination_account_id = NoAccount
     THEN <<"destination_account_id is required">> ELSE <<>>)
  \o (IF transaction.amount = 0 \/ transaction.amount <= 0
     THEN <<"Valid amount is required">> ELSE <<>>)

\* utils/validation.js handleErrors: the HTTP status it answers with.
handleErrors(error) ==
  IF error.code = "23505" THEN 409
  ELSE IF MsgIncludes(error.message, "not found") THEN 404
  ELSE IF MsgIncludes(error.message, "Invalid")
          \/ MsgIncludes(error.message, "Missing") THEN 400
  ELSE 500

\* ------------------------------------------------------------- the store

VARIABLES
  transactions,       \* committed rows of table transactions: id -> row
  ledger_entries,     \* committed rows of table ledger_entries (a set)
  idempotency_keys,   \* committed rows of table idempotency_keys (a set)
  pc,                 \* per caller: the statement it is about to run
  call,               \* per caller: the operation and its arguments
  existingResult,     \* per caller: transaction_id of the key row it read (NoId: no row)
  originalTxn,        \* per caller: the original row a refund read (<<>>: none)
  txnId,              \* per caller: id of the row its INSERT returned (NoId: none)
  uow,                \* per caller: the uncommitted writes of its open unit
  error,              \* per caller: the error caught by the catch block
  result,             \* per caller: what the call returned / the route answered
  reconciliation_reports,  \* committed rows of table reconciliation_reports (a set)
  recon,              \* per caller: the locals of its reconcileAccount call
  cache,              \* idempotencyCache: key -> the cached outcome (Absent: none)
  queue,              \* the queue: key -> number of messages published for it
  connected,          \* socket.io: the sockets that are connected
  activeConnections,  \* WebSocketManager.activeConnections: socket id -> record
  joined,             \* socket.io adapter: socket id -> the rooms it is in
  emitted             \* the events the last WebSocketManager call emitted

vars == <<transactions, ledger_entries, idempotency_keys,
          pc, call, existingResult, originalTxn, txnId, uow, error, result,
          reconciliation_reports, recon,
          cache, queue, connected, activeConnections, joined, emitted>>

\* The collaborators of the asynchronous ingest path.
ingest == <<cache, queue>>

\* The state of the WebSocketManager and of the socket.io server it drives.
ws == <<connected, activeConnections, joined, emitted>>

store == <<transactions, ledger_entries, idempotency_keys>>

\* A row of table transactions.  type and parent_transaction_id are NULL for
\* a payment; amount_remaining is never written by an INSERT and has no
\* default, so it starts NULL.
TxnRow(id, s, d, a, st, ty, parent) ==
  [id |-> id, source_account_id |-> s, destination_account_id |-> d,
   amount |-> a, status |-> st, type |-> ty,
   parent_transaction_id |-> parent, amount_remaining |-> NullNum]

\* A row of table ledger_entries; n numbers the rows a unit posts for one
\* transaction (the generated primary key).
EntryRow(tid, n, account, a, ty, side) ==
  [id |-> <<tid, n>>, transaction_id |-> tid, account_id |-> account,
   amount |-> a, entry_type |-> ty, account_side |-> side]

KeyRow(k, tid) == [idempotency_key |-> k, transaction_id |-> tid]

\* The uncommitted writes of one unit: inserted transactions rows (id -> row),
\* inserted key rows, inserted ledger rows, and status updates of committed
\* rows (id -> status), each holding the row's lock.
EmptyUow == [txn |-> <<>>, keys |-> {}, entries |-> {}, updates |-> <<>>]

NoCall == [op |-> "none"]

\* What a call returned: status, the id and status of the transaction row in
\* the return value, and the HTTP status the route answers it with.
Result(st, id, rowst, http) ==
  [status |-> st, transaction_id |-> id, row_status |-> rowst, http |-> http]

NoResult == Result("NONE", NoId, "", 0)

\* The locals of reconcileAccount before its first statement.
NoRecon == <<>>

\* idempotencyCache.get answers null for a key it does not hold.
Absent == [status |-> "ABSENT"]

\* The sockets that can connect.
NumSockets == 2

SocketIds == 1..NumSockets

\* What a call of the WebSocketManager emitted: the method, its accountId,
\* the event and the sockets it was delivered to.
Emitted(by, accountId, event, to) ==
  [by |-> by, accountId |-> accountId, event |-> event, to |-> to]

NoEmit == Emitted("", "", "", {})

\* Nothing is cached or queued; no socket is connected.
InitCollaborators ==
  /\ cache = [k \in Keys |-> Absent]
  /\ queue = [k \in Keys |-> 0]
  /\ connected = {}
  /\ activeConnections = <<>>
  /\ joined = [s \in SocketIds |-> {}]
  /\ emitted = NoEmit

Init ==
  /\ InitCollaborators
  /\ transactions = <<>>
  /\ ledger_entries = {}
  /\ idempotency_keys = {}
  /\ pc = [p \in Callers |-> "idle"]
  /\ call = [p \in Callers |-> NoCall]
  /\ existingResult = [p \in Callers |-> NoId]
  /\ originalTxn = [p \in Callers |-> <<>>]
  /\ txnId = [p \in Callers |-> NoId]
  /\ uow = [p \in Callers |-> EmptyUow]
  /\ error = [p \in Callers |-> NoError]
  /\ result = [p \in Callers |-> NoResult]
  /\ reconciliation_reports = {}
  /\ recon = [p \in Callers |-> NoRecon]

\* ------------------------------------------------------ storage primitives

\* DEFAULT gen_random_uuid(): the id of the row caller p inserts.
NewId(p) == p

\* The committed table with a unit's writes applied: its inserted rows
\* added and its status updates made.
Published(u) ==
  [id \in DOMAIN transactions \cup DOMAIN u.txn |->
     IF id \in DOMAIN u.txn THEN u.txn[id]
     ELSE IF id \in DOMAIN u.updates
          THEN [transactions[id] EXCEPT !.status = u.updates[id]]
          ELSE transactions[id]]

\* A key lookup that never finds a row (the lookup answered from an empty
\* cache instead of the table).
KeyRows_NeverFound(k) == {}

\* The rows of idempotency_keys a statement of any unit can read for key k:
\* READ COMMITTED shows committed rows only (a unit reads the key before it
\* writes one).
KeyRows(k) == {r \in idempotency_keys : r.idempotency_key = k}

\* Another open unit holds an uncommitted insert of key k: an INSERT of k
\* waits on the UNIQUE index until that unit ends.
KeyInsertPending(p, k) ==
  \E q \in Callers \ {p} : \E r \in uow[q].keys : r.idempotency_key = k

\* Another open unit holds the lock of row id (an uncommitted UPDATE).
RowLocked(p, id) == \E q \in Callers \ {p} : id \in DOMAIN uow[q].updates

\* The catch block is entered with error e: the next statement is ROLLBACK.
\* Every throw that follows a write is a failed statement, which aborts the
\* unit at the server: its rows are dead from then on, while its index
\* entries and row locks stay until the ROLLBACK.
Throw(p, e) ==
  /\ error' = [error EXCEPT ![p] = e]
  /\ pc' = [pc EXCEPT ![p] = "rollback"]
  /\ uow' = [uow EXCEPT ![p].txn = <<>>, ![p].entries = {}]
  /\ txnId' = [txnId EXCEPT ![p] = NoId]

\* The call returns r (or throws, r carrying the route's answer): the
\* connection is released and the locals go out of scope.
Return(p, r) ==
  /\ result' = [result EXCEPT ![p] = r]
  /\ pc' = [pc EXCEPT ![p] = "done"]
  /\ existingResult' = [existingResult EXCEPT ![p] = NoId]
  /\ originalTxn' = [originalTxn EXCEPT ![p] = <<>>]
  /\ txnId' = [txnId EXCEPT ![p] = NoId]

\* ------------------------------------------- POST /transactions (route)

\* The validateTransaction middleware answers 400 and the processor is never
\* called.
RouteReject(p) ==
  /\ pc[p] = "idle"
  /\ \E t \in Payloads :
       /\ middlewareErrors(t) # <<>>
       /\ call' = [call EXCEPT ![p] = [op |-> "route", transaction |-> t]]
  /\ result' = [result EXCEPT ![p] = Result("REJECTED", NoId, "", 400)]
  /\ pc' = [pc EXCEPT ![p] = "done"]
  /\ UNCHANGED <<ingest, ws, reconciliation_reports, recon, store, existingResult, originalTxn, txnId, uow, error>>

\* ------------------------------ TransactionProcessor.processTransaction

ApplyCalls ==
  {[op |-> "apply", transaction |-> t, idempotencyKey |-> k] :
     t \in Payloads, k \in Keys}

RefundCalls ==
  {[op |-> "refund", transactionId |-> id, refundAmount |-> a] :
     id \in TxnIds, a \in RefundAmounts}

\* processTransaction validating the payload before it looks the key up.
SelectIdempotencyKey_ValidateFirst(p) ==
  /\ pc[p] = "idle"
  /\ \E c \in ApplyCalls : call' = [call EXCEPT ![p] = c]
  /\ LET rows == KeyRows(call'[p].idempotencyKey)
         invalid == validateTransaction(call'[p].transaction)
     IN IF invalid # NoError
        THEN /\ Throw(p, invalid)
             /\ UNCHANGED existingResult
        ELSE /\ UNCHANGED <<error, uow, txnId>>
             /\ IF rows # {}
                THEN /\ existingResult' = [existingResult EXCEPT ![p] =
                                            (CHOOSE r \in rows : TRUE).transaction_id]
                     /\ pc' = [pc EXCEPT ![p] = "select_txn"]
                ELSE /\ pc' = [pc EXCEPT ![p] = "insert_txn"]
                     /\ UNCHANGED existingResult
  /\ UNCHANGED <<ingest, ws, reconciliation_reports, recon, store, originalTxn, result>>

\* processTransaction(transaction, idempotencyKey) is called: pool.connect();
\* BEGIN; SELECT id, transaction_id FROM idempotency_keys WHERE
\* idempotency_key = $1; then, without awaiting: the duplicate branch, or
\* validateTransaction and the INSERT that follows it.
SelectIdempotencyKey(p) ==
  /\ pc[p] = "idle"
  /\ \E c \in ApplyCalls : call' = [call EXCEPT ![p] = c]
  /\ LET rows == KeyRows(call'[p].idempotencyKey)
         invalid == validateTransaction(call'[p].transaction)
     IN IF rows # {}
        THEN /\ existingResult' = [existingResult EXCEPT ![p] =
                                     (CHOOSE r \in rows : TRUE).transaction_id]
             /\ pc' = [pc EXCEPT ![p] = "select_txn"]
             /\ UNCHANGED <<error, uow, txnId>>
        ELSE /\ UNCHANGED existingResult
             /\ IF invalid # NoError
                THEN Throw(p, invalid)
                ELSE /\ pc' = [pc EXCEPT ![p] = "insert_txn"]
                     /\ UNCHANGED <<error, uow, txnId>>
  /\ UNCHANGED <<ingest, ws, reconciliation_reports, recon, store, originalTxn, result>>

\* SELECT * FROM transactions WHERE id = $1; COMMIT; return DUPLICATE.
ReturnDuplicate(p) ==
  /\ pc[p] = "select_txn"
  /\ existingResult[p] \in DOMAIN transactions
  /\ LET row == transactions[existingResult[p]]
     IN Return(p, Result("DUPLICATE", row.id, row.status, 200))
  /\ UNCHANGED <<ingest, ws, reconciliation_reports, recon, store, call, uow, error>>

\* INSERT INTO transactions (...) VALUES (..., 'PENDING', ...) RETURNING *.
\* CHECK (amount > 0) is the table's constraint.
InsertTransaction(p) ==
  /\ pc[p] = "insert_txn"
  /\ LET t == call[p].transaction
     IN IF ~(t.amount > 0)
        THEN /\ Throw(p, E_CHECK)
        ELSE /\ uow' = [uow EXCEPT ![p].txn =
                          (NewId(p) :> TxnRow(NewId(p), t.source_account_id,
                                              t.destination_account_id, t.amount,
                                              "PENDING", NULL, NoId))]
             /\ txnId' = [txnId EXCEPT ![p] = NewId(p)]
             /\ pc' = [pc EXCEPT ![p] = "insert_key"]
             /\ UNCHANGED error
  /\ UNCHANGED <<ingest, ws, reconciliation_reports, recon, store, call, existingResult, originalTxn, result>>

\* The key INSERT against a table whose idempotency_key column is not UNIQUE:
\* it neither waits nor fails.
InsertIdempotencyKey_NotUnique(p) ==
  /\ pc[p] = "insert_key"
  /\ uow' = [uow EXCEPT ![p].keys = @ \cup {KeyRow(call[p].idempotencyKey, txnId[p])}]
  /\ pc' = [pc EXCEPT ![p] = "insert_debit"]
  /\ UNCHANGED <<ingest, ws, reconciliation_reports, recon, store, call, existingResult, originalTxn, txnId, error, result>>

\* INSERT INTO idempotency_keys (idempotency_key, transaction_id, ...).
\* idempotency_key is UNIQUE: the statement waits while another open unit
\* holds the key, and fails with 23505 when the key is committed.
InsertIdempotencyKey(p) ==
  /\ pc[p] = "insert_key"
  /\ LET k == call[p].idempotencyKey
     IN /\ ~KeyInsertPending(p, k)
        /\ IF KeyRows(k) # {}
           THEN /\ Throw(p, E_UNIQUE)
           ELSE /\ uow' = [uow EXCEPT ![p].keys = @ \cup {KeyRow(k, txnId[p])}]
                /\ pc' = [pc EXCEPT ![p] = "insert_debit"]
                /\ UNCHANGED <<error, txnId>>
  /\ UNCHANGED <<ingest, ws, reconciliation_reports, recon, store, call, existingResult, originalTxn, result>>

\* processRefund posting the refund's entries on the original's accounts
\* without swapping them.
entryTransaction_NotSwapped(p) ==
  IF call[p].op = "apply"
  THEN [source_account_id |-> call[p].transaction.source_account_id,
        destination_account_id |-> call[p].transaction.destination_account_id,
        amount |-> call[p].transaction.amount]
  ELSE [source_account_id |-> originalTxn[p].source_account_id,
        destination_account_id |-> originalTxn[p].destination_account_id,
        amount |-> call[p].refundAmount]

\* The transaction argument of createLedgerEntries: the payload for
\* processTransaction, the original with its accounts swapped for
\* processRefund.
entryTransaction(p) ==
  IF call[p].op = "apply"
  THEN [source_account_id |-> call[p].transaction.source_account_id,
        destination_account_id |-> call[p].transaction.destination_account_id,
        amount |-> call[p].transaction.amount]
  ELSE [source_account_id |-> originalTxn[p].destination_account_id,
        destination_account_id |-> originalTxn[p].source_account_id,
        amount |-> call[p].refundAmount]

\* The ledger rows the unit of p has posted for transaction tid so far.
Posted(p, tid) == {e \in uow[p].entries : e.transaction_id = tid}

\* The debit sent on the pool instead of the unit's client: it commits on
\* its own, outside the unit.
InsertDebit_OnPool(p) ==
  /\ pc[p] = "insert_debit"
  /\ LET t == entryTransaction(p)
     IN ledger_entries' = ledger_entries \cup
          {EntryRow(txnId[p], 1, t.source_account_id, -t.amount, "DEBIT", "SOURCE")}
  /\ pc' = [pc EXCEPT ![p] = "insert_credit"]
  /\ UNCHANGED <<ingest, ws, reconciliation_reports, recon, transactions, idempotency_keys, call, existingResult,
                 originalTxn, txnId, uow, error, result>>

\* createLedgerEntries, first INSERT: debit from the source account.
InsertDebit(p) ==
  /\ pc[p] = "insert_debit"
  /\ LET t == entryTransaction(p)
         n == Cardinality(Posted(p, txnId[p])) + 1
     IN uow' = [uow EXCEPT ![p].entries = @ \cup
                  {EntryRow(txnId[p], n, t.source_account_id, -t.amount,
                            "DEBIT", "SOURCE")}]
  /\ pc' = [pc EXCEPT ![p] = "insert_credit"]
  /\ UNCHANGED <<ingest, ws, reconciliation_reports, recon, store, call, existingResult, originalTxn, txnId, error, result>>

\* The credit posted with the debit's sign.
InsertCredit_Negated(p) ==
  /\ pc[p] = "insert_credit"
  /\ LET t == entryTransaction(p)
         n == Cardinality(Posted(p, txnId[p])) + 1
     IN uow' = [uow EXCEPT ![p].entries = @ \cup
                  {EntryRow(txnId[p], n, t.destination_account_id, -t.amount,
                            "CREDIT", "DESTINATION")}]
  /\ pc' = [pc EXCEPT ![p] = IF call[p].op = "apply" THEN "update_status"
                             ELSE "update_original"]
  /\ UNCHANGED <<ingest, ws, reconciliation_reports, recon, store, call, existingResult, originalTxn, txnId, error, result>>

\* createLedgerEntries, second INSERT: credit to the destination account.
InsertCredit(p) ==
  /\ pc[p] = "insert_credit"
  /\ LET t == entryTransaction(p)
         n == Cardinality(Posted(p, txnId[p])) + 1
     IN uow' = [uow EXCEPT ![p].entries = @ \cup
                  {EntryRow(txnId[p], n, t.destination_account_id, t.amount,
                            "CREDIT", "DESTINATION")}]
  /\ pc' = [pc EXCEPT ![p] = IF call[p].op = "apply" THEN "update_status"
                             ELSE "update_original"]
  /\ UNCHANGED <<ingest, ws, reconciliation_reports, recon, store, call, existingResult, originalTxn, txnId, error, result>>

\* The status UPDATE matching no row: the transaction stays PENDING.
UpdateStatus_NoRow(p) ==
  /\ pc[p] = "update_status"
  /\ pc' = [pc EXCEPT ![p] = "commit"]
  /\ UNCHANGED <<ingest, ws, reconciliation_reports, recon, store, call, existingResult, originalTxn, txnId, uow, error, result>>

\* UPDATE transactions SET status = 'COMPLETED' WHERE id = txnId (the unit's
\* own, uncommitted row).
UpdateStatus(p) ==
  /\ pc[p] = "update_status"
  /\ uow' = [uow EXCEPT ![p].txn[txnId[p]].status = "COMPLETED"]
  /\ pc' = [pc EXCEPT ![p] = "commit"]
  /\ UNCHANGED <<ingest, ws, reconciliation_reports, recon, store, call, existingResult, originalTxn, txnId, error, result>>

\* What the call returns once COMMIT has succeeded.  processTransaction
\* returns the row as the INSERT returned it (status PENDING); processRefund
\* returns the refund row.
Returned(p) ==
  IF call[p].op = "apply"
  THEN Result("SUCCESS", txnId[p], "PENDING", 201)
  ELSE Result("REFUND", txnId[p], "COMPLETED", 201)

\* A COMMIT whose refund unit has erased the entries of the original instead
\* of keeping them beside the reversal (not the code).
Commit_RefundErasesOriginal(p) ==
  /\ pc[p] = "commit"
  /\ transactions' = Published(uow[p])
  /\ ledger_entries' =
       {e \in ledger_entries :
          call[p].op = "refund" => e.transaction_id # call[p].transactionId}
         \cup uow[p].entries
  /\ idempotency_keys' = idempotency_keys \cup uow[p].keys
  /\ uow' = [uow EXCEPT ![p] = EmptyUow]
  /\ Return(p, Returned(p))
  /\ UNCHANGED <<ingest, ws, reconciliation_reports, recon, call, error>>

\* A COMMIT that publishes the DEBIT rows of the unit only (not the code).
Commit_CreditsLost(p) ==
  /\ pc[p] = "commit"
  /\ transactions' = Published(uow[p])
  /\ ledger_entries' =
       ledger_entries \cup {e \in uow[p].entries : e.entry_type = "DEBIT"}
  /\ idempotency_keys' = idempotency_keys \cup uow[p].keys
  /\ uow' = [uow EXCEPT ![p] = EmptyUow]
  /\ Return(p, Returned(p))
  /\ UNCHANGED <<ingest, ws, reconciliation_reports, recon, call, error>>

\* COMMIT: every write of the unit becomes visible at once.
Commit(p) ==
  /\ pc[p] = "commit"
  /\ transactions' = Published(uow[p])
  /\ ledger_entries' = ledger_entries \cup uow[p].entries
  /\ idempotency_keys' = idempotency_keys \cup uow[p].keys
  /\ uow' = [uow EXCEPT ![p] = EmptyUow]
  /\ Return(p, Returned(p))
  /\ UNCHANGED <<ingest, ws, reconciliation_reports, recon, call, error>>

\* A catch block whose key binding survives the failure (the binding written
\* outside the unit).
Rollback_KeepsKey(p) ==
  /\ pc[p] = "rollback"
  /\ idempotency_keys' = idempotency_keys \cup uow[p].keys
  /\ uow' = [uow EXCEPT ![p] = EmptyUow]
  /\ Return(p, Result("ERROR", NoId, "", handleErrors(error[p])))
  /\ UNCHANGED <<ingest, ws, reconciliation_reports, recon, transactions, ledger_entries, call, error>>

\* catch (error) { ROLLBACK; throw error }: the unit's writes are dropped and
\* the route answers through handleErrors.
Rollback(p) ==
  /\ pc[p] = "rollback"
  /\ uow' = [uow EXCEPT ![p] = EmptyUow]
  /\ Return(p, Result("ERROR", NoId, "", handleErrors(error[p])))
  /\ UNCHANGED <<ingest, ws, reconciliation_reports, recon, store, call, error>>

\* The statements a unit runs between BEGIN and the end of COMMIT.
StatementPcs ==
  {"select_txn", "insert_txn", "insert_key", "insert_debit", "insert_credit",
   "update_status", "commit", "insert_refund", "update_original"}

\* The statement p is about to run fails for a reason of the infrastructure
\* (the store is unavailable, the connection is lost): client.query rejects
\* and the catch block runs.  From idle it is the first statement of a call
\* that fails.
StatementFails(p) ==
  /\ \/ /\ pc[p] \in StatementPcs
        /\ UNCHANGED call
     \/ /\ pc[p] = "idle"
        /\ \E c \in ApplyCalls \cup RefundCalls : call' = [call EXCEPT ![p] = c]
  /\ Throw(p, E_INFRA)
  /\ UNCHANGED <<ingest, ws, reconciliation_reports, recon, store, existingResult, originalTxn, result>>

\* ---------------------------------- TransactionProcessor.processRefund

\* processRefund(transactionId, refundAmount, reason) is called:
\* pool.connect(); BEGIN; SELECT * FROM transactions WHERE id = $1; no row:
\* throw 'Transaction not found'.
SelectOriginal(p) ==
  /\ pc[p] = "idle"
  /\ \E c \in RefundCalls : call' = [call EXCEPT ![p] = c]
  /\ IF call'[p].transactionId \in DOMAIN transactions
     THEN /\ originalTxn' = [originalTxn EXCEPT ![p] = transactions[call'[p].transactionId]]
          /\ pc' = [pc EXCEPT ![p] = "insert_refund"]
          /\ UNCHANGED <<error, uow, txnId>>
     ELSE /\ Throw(p, E_NOTFOUND)
          /\ UNCHANGED originalTxn
  /\ UNCHANGED <<ingest, ws, reconciliation_reports, recon, store, existingResult, result>>

\* The refund row inserted with the original's source and destination as
\* they are.
InsertRefund_NotSwapped(p) ==
  /\ pc[p] = "insert_refund"
  /\ IF ~(call[p].refundAmount > 0)
     THEN /\ Throw(p, E_CHECK)
     ELSE /\ uow' = [uow EXCEPT ![p].txn =
                       (NewId(p) :> TxnRow(NewId(p), originalTxn[p].source_account_id,
                                           originalTxn[p].destination_account_id,
                                           call[p].refundAmount, "COMPLETED",
                                           "REFUND", call[p].transactionId))]
          /\ txnId' = [txnId EXCEPT ![p] = NewId(p)]
          /\ pc' = [pc EXCEPT ![p] = "insert_debit"]
          /\ UNCHANGED error
  /\ UNCHANGED <<ingest, ws, reconciliation_reports, recon, store, call, existingResult, originalTxn, result>>

\* INSERT INTO transactions (...) VALUES (destination, source, refundAmount,
\* 'COMPLETED', 'REFUND', transactionId, ...) RETURNING *.
InsertRefund(p) ==
  /\ pc[p] = "insert_refund"
  /\ IF ~(call[p].refundAmount > 0)
     THEN /\ Throw(p, E_CHECK)
     ELSE /\ uow' = [uow EXCEPT ![p].txn =
                       (NewId(p) :> TxnRow(NewId(p), originalTxn[p].destination_account_id,
                                           originalTxn[p].source_account_id,
                                           call[p].refundAmount, "COMPLETED",
                                           "REFUND", call[p].transactionId))]
          /\ txnId' = [txnId EXCEPT ![p] = NewId(p)]
          /\ pc' = [pc EXCEPT ![p] = "insert_debit"]
          /\ UNCHANGED error
  /\ UNCHANGED <<ingest, ws, reconciliation_reports, recon, store, call, existingResult, originalTxn, result>>

\* UPDATE transactions SET status = 'REFUNDED' WHERE id = transactionId; the
\* statement waits while another open unit holds the row's lock.
UpdateOriginal(p) ==
  /\ pc[p] = "update_original"
  /\ ~RowLocked(p, call[p].transactionId)
  /\ uow' = [uow EXCEPT ![p].updates = (call[p].transactionId :> "REFUNDED")]
  /\ pc' = [pc EXCEPT ![p] = "commit"]
  /\ UNCHANGED <<ingest, ws, reconciliation_reports, recon, store, call, existingResult, originalTxn, txnId, error, result>>

\* --------------------------- TransactionProcessor.processPartialPayment

\* amount_remaining - $1 in SQL: NULL when amount_remaining is NULL.
SqlMinus(a, b) == IF a = NullNum THEN NullNum ELSE <<a[1] - b>>

\* CASE WHEN (amount_remaining - $1) = 0 THEN 'COMPLETED' ELSE 'PARTIAL' END:
\* a NULL comparison is not true.
PartialStatus(a, b) ==
  IF SqlMinus(a, b) # NullNum /\ SqlMinus(a, b)[1] = 0 THEN "COMPLETED" ELSE "PARTIAL"

\* UPDATE transactions SET amount_remaining = amount_remaining - $1,
\* status = CASE ... END WHERE id = $2 RETURNING *, as one statement on the
\* client it is handed (committed on its own).  No row: it returns undefined.
processPartialPayment(p) ==
  /\ pc[p] = "idle"
  /\ \E id \in TxnIds, paid \in PaidAmounts :
       /\ ~RowLocked(p, id)
       /\ call' = [call EXCEPT ![p] =
                     [op |-> "partial", transactionId |-> id, paidAmount |-> paid]]
       /\ IF id \in DOMAIN transactions
          THEN /\ transactions' =
                    [transactions EXCEPT
                       ![id].amount_remaining = SqlMinus(@, paid),
                       ![id].status = PartialStatus(transactions[id].amount_remaining, paid)]
               /\ result' = [result EXCEPT ![p] =
                               Result("SETTLED", id, transactions'[id].status, 0)]
          ELSE /\ UNCHANGED transactions
               /\ result' = [result EXCEPT ![p] = Result("UNDEFINED", NoId, "", 0)]
  /\ pc' = [pc EXCEPT ![p] = "done"]
  /\ UNCHANGED <<ingest, ws, reconciliation_reports, recon, ledger_entries, idempotency_keys, existingResult,
                 originalTxn, txnId, uow, error>>

\* ------------------------------------------------------- specification

Next ==
  \E p \in Callers :
    \/ RouteReject(p)
    \/ SelectIdempotencyKey(p)
    \/ ReturnDuplicate(p)
    \/ InsertTransaction(p)
    \/ InsertIdempotencyKey(p)
    \/ InsertDebit(p)
    \/ InsertCredit(p)
    \/ UpdateStatus(p)
    \/ Commit(p)
    \/ Rollback(p)
    \/ StatementFails(p)
    \/ SelectOriginal(p)
    \/ InsertRefund(p)
    \/ UpdateOriginal(p)
    \/ processPartialPayment(p)

Spec == Init /\ [][Next]_vars

\* Submissions one after another: a caller takes a step only while every
\* other caller is idle or has returned (a retry after the original ended,
\* a queue redelivery after the first delivery).
Alone(p) == \A q \in Callers \ {p} : pc[q] \in {"idle", "done"}

NextSeq ==
  \E p \in Callers :
    \/ Alone(p) /\ RouteReject(p)
    \/ Alone(p) /\ SelectIdempotencyKey(p)
    \/ Alone(p) /\ ReturnDuplicate(p)
    \/ Alone(p) /\ InsertTransaction(p)
    \/ Alone(p) /\ InsertIdempotencyKey(p)
    \/ Alone(p) /\ InsertDebit(p)
    \/ Alone(p) /\ InsertCredit(p)
    \/ Alone(p) /\ UpdateStatus(p)
    \/ Alone(p) /\ Commit(p)
    \/ Alone(p) /\ Rollback(p)
    \/ Alone(p) /\ StatementFails(p)
    \/ Alone(p) /\ SelectOriginal(p)
    \/ Alone(p) /\ InsertRefund(p)
    \/ Alone(p) /\ UpdateOriginal(p)
    \/ Alone(p) /\ processPartialPayment(p)

SpecSeq == Init /\ [][NextSeq]_vars

\* The payload and key of the transaction applied before the callers start.
SeedPayload == Payload("B", "A", 2, TRUE)

SeedKey == "k1"

\* The store after processTransaction(SeedPayload, SeedKey) has committed
\* and returned: the row, updated to COMPLETED, its debit and credit, and the
\* key row; every caller is still idle.
InitApplied ==
  /\ InitCollaborators
  /\ transactions =
       (SeedId :> TxnRow(SeedId, SeedPayload.source_account_id,
                         SeedPayload.destination_account_id, SeedPayload.amount,
                         "COMPLETED", NULL, NoId))
  /\ ledger_entries =
       { EntryRow(SeedId, 1, SeedPayload.source_account_id, -SeedPayload.amount,
                  "DEBIT", "SOURCE"),
         EntryRow(SeedId, 2, SeedPayload.destination_account_id, SeedPayload.amount,
                  "CREDIT", "DESTINATION") }
  /\ idempotency_keys = {KeyRow(SeedKey, SeedId)}
  /\ pc = [p \in Callers |-> "idle"]
  /\ call = [p \in Callers |-> NoCall]
  /\ existingResult = [p \in Callers |-> NoId]
  /\ originalTxn = [p \in Callers |-> <<>>]
  /\ txnId = [p \in Callers |-> NoId]
  /\ uow = [p \in Callers |-> EmptyUow]
  /\ error = [p \in Callers |-> NoError]
  /\ result = [p \in Callers |-> NoResult]
  /\ reconciliation_reports = {}
  /\ recon = [p \in Callers |-> NoRecon]

\* The callers' operations on a store that holds one applied transaction.
SpecApplied == InitApplied /\ [][Next]_vars

\* ------------------------------------------------------------ vocabulary

Applied(p) == call[p].op = "apply"

Done(p) == pc[p] = "done"

\* Callers that have submitted under key k.
Submitters(k) == {p \in Callers : Applied(p) /\ call[p].idempotencyKey = k}

\* The committed ledger rows of transaction id.
EntriesOf(id) == {e \in ledger_entries : e.transaction_id = id}

\* Transaction id has its balanced pair posted: one DEBIT of -amount on the
\* source account and one CREDIT of +amount on the destination account.
BalancedPair(id) ==
  /\ Cardinality(EntriesOf(id)) = 2
  /\ \E d, c \in EntriesOf(id) :
       /\ d.entry_type = "DEBIT"
       /\ d.account_id = transactions[id].source_account_id
       /\ d.amount = -transactions[id].amount
       /\ c.entry_type = "CREDIT"
       /\ c.account_id = transactions[id].destination_account_id
       /\ c.amount = transactions[id].amount
       /\ d.amount + c.amount = 0

\* The call of p met no infrastructure failure and its payload is valid.
CleanValid(p) ==
  /\ Applied(p)
  /\ error[p] # E_INFRA
  /\ validateTransaction(call[p].transaction) = NoError

\* ---------------------------------------------------------------- claims

\* C1: under any interleaving of processTransaction calls that present the
\* same idempotency key, at most one transaction row is committed for the
\* key, at most one caller receives SUCCESS, the key is bound to at most one
\* transaction id, and a committed binding is never changed or removed.
C1_OneTransactionPerKey ==
  /\ [](\A k \in Keys :
          /\ Cardinality({p \in Submitters(k) : NewId(p) \in DOMAIN transactions}) <= 1
          /\ Cardinality({p \in Submitters(k) : result[p].status = "SUCCESS"}) <= 1
          /\ Cardinality(KeyRows(k)) <= 1)
  /\ [][\A r \in idempotency_keys : r \in idempotency_keys']_vars

\* C1 witness: two callers raced on one key; one committed and the other lost
\* on the UNIQUE index.
C1_Witness ==
  \E p, q \in Callers :
    /\ p # q /\ Applied(p) /\ Applied(q)
    /\ call[p].idempotencyKey = call[q].idempotencyKey
    /\ result[p].status = "SUCCESS"
    /\ Done(q) /\ error[q] = E_UNIQUE
    /\ Cardinality(KeyRows(call[p].idempotencyKey)) = 1

\* C2: when K submissions with the same key run concurrently, every caller
\* whose call met no infrastructure failure (payload valid) receives SUCCESS
\* or DUPLICATE, and a DUPLICATE references the transaction bound to the key:
\* the loser of the uniqueness race is not answered with a failure.
C2_LoserResolvedAsDuplicate ==
  \A p \in Callers :
    (Done(p) /\ CleanValid(p)) =>
      /\ result[p].status \in {"SUCCESS", "DUPLICATE"}
      /\ KeyRow(call[p].idempotencyKey, result[p].transaction_id) \in idempotency_keys
      /\ result[p].transaction_id \in DOMAIN transactions

\* C3: submitting the same valid (transaction, idempotencyKey) pair N >= 2
\* times one after another produces exactly one transaction row and exactly
\* one pair of ledger entries, and every call that met no infrastructure
\* failure returns the same transaction id, as SUCCESS or DUPLICATE.
C3_ResubmissionIsIdempotent ==
  \A c \in ApplyCalls :
    LET same == {p \in Callers : Done(p) /\ call[p] = c /\ error[p] # E_INFRA}
        rows == {p \in Callers : call[p] = c /\ NewId(p) \in DOMAIN transactions}
    IN (/\ validateTransaction(c.transaction) = NoError
        /\ same # {}
        /\ \A q \in Submitters(c.idempotencyKey) : call[q] = c)
       =>
       /\ \A p \in same : result[p].status \in {"SUCCESS", "DUPLICATE"}
       /\ \A p, q \in same : result[p].transaction_id = result[q].transaction_id
       /\ Cardinality(rows) = 1
       /\ \A p \in same : /\ result[p].transaction_id \in rows
                          /\ Cardinality(EntriesOf(result[p].transaction_id)) = 2

\* C3 witness: the same pair was submitted twice; the first call applied it
\* and the second received it back.
C3_Witness ==
  \E p, q \in Callers :
    /\ p # q /\ Done(p) /\ Done(q) /\ Applied(p) /\ call[p] = call[q]
    /\ result[p].status = "SUCCESS"
    /\ result[q].status = "DUPLICATE"
    /\ result[q].transaction_id = result[p].transaction_id

\* C4: every committed transaction owns exactly two ledger entries, one DEBIT
\* of -amount on its source account and one CREDIT of +amount on its
\* destination account, summing to zero, after any interleaving of apply,
\* refund and partial-payment calls, successful or failed.
C4_DoubleEntry == \A id \in DOMAIN transactions : BalancedPair(id)

\* C4 witness: a payment and its committed refund are both in the store.
C4_Witness ==
  \E id, r \in DOMAIN transactions :
    /\ transactions[r].type = "REFUND"
    /\ transactions[r].parent_transaction_id = id
    /\ transactions[id].status = "REFUNDED"

\* What a committed unit of caller p leaves in the store.
WholeUnit(p) ==
  /\ NewId(p) \in DOMAIN transactions
  /\ BalancedPair(NewId(p))
  /\ call[p].op = "apply" =>
       /\ transactions[NewId(p)].status = "COMPLETED"
       /\ KeyRow(call[p].idempotencyKey, NewId(p)) \in idempotency_keys
  /\ call[p].op = "refund" =>
       /\ transactions[NewId(p)].parent_transaction_id = call[p].transactionId
       /\ transactions[call[p].transactionId].status = "REFUNDED"

\* C5: apply and refund are all-or-nothing.  The committed store changes in a
\* step of an apply or refund call only when that step is the call's COMMIT
\* returning successfully, and then the whole unit is there; every other step,
\* and every step of a call that fails, leaves the committed store as it was.
C5_AllOrNothing ==
  [][\A p \in Callers :
       (/\ (pc'[p] # pc[p] \/ call'[p] # call[p])
        /\ call'[p].op \in {"apply", "refund"}
        /\ store' # store)
       => /\ pc[p] = "commit"
          /\ result'[p].status \in {"SUCCESS", "REFUND"}
          /\ WholeUnit(p)']_vars

\* C5 witness: a unit that has bound its key failed and awaits its ROLLBACK,
\* and the committed store holds nothing of it.
C5_Witness ==
  \E p \in Callers :
    /\ pc[p] = "rollback" /\ error[p] = E_INFRA
    /\ uow[p].keys # {}
    /\ NewId(p) \notin DOMAIN transactions
    /\ EntriesOf(NewId(p)) = {}
    /\ KeyRows(call[p].idempotencyKey) = {}

\* C6: every committed idempotency record references a transaction that
\* exists, has both ledger entries posted and is not PENDING.
C6_BoundKeyIsApplied ==
  \A r \in idempotency_keys :
    /\ r.transaction_id \in DOMAIN transactions
    /\ transactions[r.transaction_id].status # "PENDING"
    /\ BalancedPair(r.transaction_id)

\* C6 witness: a reader is looking up a bound key's transaction.
C6_Witness ==
  \E p \in Callers :
    /\ pc[p] = "select_txn"
    /\ KeyRow(call[p].idempotencyKey, existingResult[p]) \in idempotency_keys

\* Callers other than q that applied a transaction under key k.
Originals(q, k) == {p \in Submitters(k) \ {q} : result[p].status = "SUCCESS"}

C9_InvalidApplyRejected ==
  /\ \A id \in DOMAIN transactions :
       /\ transactions[id].amount > 0
       /\ transactions[id].source_account_id # transactions[id].destination_account_id
  /\ \A p \in Callers :
       (Applied(p) /\ validateTransaction(call[p].transaction) # NoError) =>
         /\ uow[p] = EmptyUow
         /\ NewId(p) \notin DOMAIN transactions
         /\ EntriesOf(NewId(p)) = {}
         /\ \A r \in idempotency_keys : r.transaction_id # NewId(p)
         /\ Done(p) =>
              /\ result[p].status \in {"ERROR", "DUPLICATE"}
              /\ KeyRows(call[p].idempotencyKey) = {} => result[p].status = "ERROR"
              /\ result[p].status = "ERROR" =>
                   error[p] \in {validateTransaction(call[p].transaction), E_INFRA}

\* C9 witness: a transfer to the same account was rejected by validation.
C9_Witness ==
  \E p \in Callers :
    /\ Done(p) /\ Applied(p) /\ error[p] = E_SAME
    /\ call[p].transaction.source_account_id = call[p].transaction.destination_account_id
    /\ result[p].status = "ERROR"

\* C10: every validation failure of a submission (missing account id,
\* non-positive amount, same source and destination) is answered with HTTP
\* 400, never 500.
C10_ValidationAnswered400 ==
  \A p \in Callers :
    (/\ Done(p)
     /\ \/ result[p].status = "REJECTED"
        \/ /\ Applied(p) /\ result[p].status = "ERROR"
           /\ error[p] \in {E_MISSING, E_SAME, E_AMOUNT})
    => result[p].http = 400

\* ------------------------------------------------ LedgerManager (reads)

AccountIds == {"A", "B"}

\* JavaScript values: a number, NaN, a string or null.
JsNumber(v) == [kind |-> "number", n |-> v, s |-> ""]
JsString(x) == [kind |-> "string", n |-> 0, s |-> x]
JsNaN       == [kind |-> "NaN",    n |-> 0, s |-> ""]
JsNull      == [kind |-> "null",   n |-> 0, s |-> ""]

Digits == <<"0", "1", "2", "3", "4", "5", "6", "7", "8", "9">>

Abs(v) == IF v < 0 THEN -v ELSE v

\* The whole numbers the texts below are written for.
Printable == -(Len(Digits) - 1) .. (Len(Digits) - 1)

\* Number.prototype.toString of a whole number.
IntText(v) == (IF v < 0 THEN "-" ELSE "") \o Digits[Abs(v) + 1]

\* The text PostgreSQL sends for a DECIMAL(15,2) value; the driver hands a
\* NUMERIC to JavaScript as this string (no type parser is registered).
NumericText(v) == IntText(v) \o ".00"

\* What the driver returns for a nullable NUMERIC column or aggregate.
PgNumeric(x) == IF x = NullNum THEN JsNull ELSE JsString(NumericText(x[1]))

\* ToNumber of JavaScript: a string is parsed as a numeric literal, and is
\* NaN when it is not one.
ToNumber(x) ==
  CASE x.kind = "number" -> x
    [] x.kind = "NaN"    -> JsNaN
    [] x.kind = "null"   -> JsNumber(0)
    [] x.kind = "string" ->
         IF x.s = "" THEN JsNumber(0)
         ELSE IF \E v \in Printable : x.s \in {IntText(v), NumericText(v)}
         THEN JsNumber(CHOOSE v \in Printable : x.s \in {IntText(v), NumericText(v)})
         ELSE JsNaN

\* ToString of JavaScript.
JsToString(x) ==
  CASE x.kind = "number" -> IntText(x.n)
    [] x.kind = "NaN"    -> "NaN"
    [] x.kind = "null"   -> "null"
    [] x.kind = "string" -> x.s

\* a || b
JsOr(a, b) ==
  IF \/ a.kind = "null" \/ a.kind = "NaN"
     \/ (a.kind = "number" /\ a.n = 0)
     \/ (a.kind = "string" /\ a.s = "")
  THEN b ELSE a

\* a + b: concatenation when either operand is a string, addition otherwise.
JsPlus(a, b) ==
  IF a.kind = "string" \/ b.kind = "string"
  THEN JsString(JsToString(a) \o JsToString(b))
  ELSE IF ToNumber(a).kind = "NaN" \/ ToNumber(b).kind = "NaN" THEN JsNaN
  ELSE JsNumber(ToNumber(a).n + ToNumber(b).n)

\* Math.abs(x)
MathAbs(x) == IF ToNumber(x).kind = "NaN" THEN JsNaN ELSE JsNumber(Abs(ToNumber(x).n))

\* SUM(amount) over a set of ledger rows: NULL over no rows.
RECURSIVE SumAmounts(_)
SumAmounts(rows) ==
  IF rows = {} THEN 0
  ELSE LET e == CHOOSE x \in rows : TRUE IN e.amount + SumAmounts(rows \ {e})

SqlSum(rows) == IF rows = {} THEN NullNum ELSE <<SumAmounts(rows)>>

\* getBalance whose query lost its WHERE account_id = $1.
BalanceIn_NoAccountFilter(entries, accountId) ==
  JsOr(PgNumeric(SqlSum(entries)), JsNumber(0))

\* getBalance over a given content of table ledger_entries:
\* SELECT SUM(amount) as balance FROM ledger_entries WHERE account_id = $1;
\* return result.rows[0].balance || 0.
BalanceIn(entries, accountId) ==
  JsOr(PgNumeric(SqlSum({e \in entries : e.account_id = accountId})), JsNumber(0))

\* LedgerManager.getBalance(accountId) on the committed table.
getBalance(accountId) == BalanceIn(ledger_entries, accountId)

\* The rows of SELECT entry_type, SUM(amount) as total FROM ledger_entries
\* WHERE transaction_id = $1 GROUP BY entry_type: one row per entry type
\* present, its total as the driver returns it.
TotalsByType(transactionId) ==
  LET rows == {e \in ledger_entries : e.transaction_id = transactionId}
  IN {[entry_type |-> ty,
       total |-> PgNumeric(SqlSum({e \in rows : e.entry_type = ty}))] :
        ty \in {e.entry_type : e \in rows}}

\* entries.find(e => e.entry_type === ty)?.total || 0
TotalOf(entries, ty) ==
  IF \E e \in entries : e.entry_type = ty
  THEN JsOr((CHOOSE e \in entries : e.entry_type = ty).total, JsNumber(0))
  ELSE JsNumber(0)

\* x < 0.01 on whole amounts (NaN compares false).
BelowEpsilon(x) == x.kind = "number" /\ x.n < 1

\* LedgerManager.verifyDoubleEntry(transactionId): the object it returns
\* (balanced is "undefined" on the early return, which does not set it).
verifyDoubleEntry(transactionId) ==
  LET entries == TotalsByType(transactionId)
      debits  == TotalOf(entries, "DEBIT")
      credits == TotalOf(entries, "CREDIT")
      balanced == BelowEpsilon(MathAbs(JsPlus(debits, credits)))
  IN IF Cardinality(entries) # 2
     THEN [valid |-> FALSE, balanced |-> "undefined",
           reason |-> "Not exactly 2 entry types"]
     ELSE [valid |-> balanced,
           balanced |-> IF balanced THEN "true" ELSE "false",
           reason |-> ""]

\* POST /transactions/:id/verify-double-entry: res.json(verification), the
\* status left at 200; handleErrors answers only when the query rejects.
VerifyDoubleEntryRoute(transactionId) ==
  [http |-> 200, body |-> verifyDoubleEntry(transactionId)]

\* ------------------------------------------- ReconciliationService

\* Time.  The instants a request can name as startDate or endDate are the
\* even numbers below; rows are created strictly between them.  NOW() is the
\* start time of the unit, so a transaction and its ledger rows carry the
\* same created_at.  The transaction applied before the callers start was
\* created between the first two instants, the rows of the callers between
\* the second and the third; nothing is created after the third.
Instants == {0, 2, 4, 6}

SeedCreatedAt == 1

CallCreatedAt == 3

CreatedAt(transactionId) ==
  IF transactionId = SeedId THEN SeedCreatedAt ELSE CallCreatedAt

\* Column account_id of table transactions, which the SELECT of
\* reconcileAccount filters on: no INSERT of the program writes it, so it is
\* NULL in every row.
TxnAccountId(row) == NULL

ReconcileCalls ==
  {[op |-> "reconcile", accountId |-> a, startDate |-> s, endDate |-> e] :
     a \in AccountIds, s \in Instants, e \in Instants}

\* SELECT * FROM transactions WHERE account_id = $1 AND created_at BETWEEN
\* $2 AND $3: the ids of the rows it returns (a comparison with NULL is not
\* true).
TransactionsInPeriod(accountId, startDate, endDate) ==
  {id \in DOMAIN transactions :
     /\ TxnAccountId(transactions[id]) # NULL
     /\ TxnAccountId(transactions[id]) = accountId
     /\ startDate <= CreatedAt(id) /\ CreatedAt(id) <= endDate}

\* SELECT SUM(amount) as total_balance FROM ledger_entries WHERE
\* account_id = $1 AND created_at < $2; total_balance || 0.
BalanceBefore(accountId, startDate) ==
  JsOr(PgNumeric(SqlSum({e \in ledger_entries :
                           /\ e.account_id = accountId
                           /\ CreatedAt(e.transaction_id) < startDate})),
       JsNumber(0))

\* SELECT SUM(amount) as total_balance FROM ledger_entries WHERE
\* account_id = $1 AND created_at <= $2; total_balance || 0.
BalanceUpTo(accountId, endDate) ==
  JsOr(PgNumeric(SqlSum({e \in ledger_entries :
                           /\ e.account_id = accountId
                           /\ CreatedAt(e.transaction_id) <= endDate})),
       JsNumber(0))

\* a - b: both operands are converted to numbers.
JsMinus(a, b) ==
  IF ToNumber(a).kind = "NaN" \/ ToNumber(b).kind = "NaN" THEN JsNaN
  ELSE JsNumber(ToNumber(a).n - ToNumber(b).n)

\* SUM(amount) FROM ledger_entries WHERE account_id = $1 AND created_at
\* BETWEEN $2 AND $3.
LedgerBalanceIn(accountId, startDate, endDate) ==
  PgNumeric(SqlSum({e \in ledger_entries :
                      /\ e.account_id = accountId
                      /\ startDate <= CreatedAt(e.transaction_id)
                      /\ CreatedAt(e.transaction_id) <= endDate}))

\* The rows of transactions WHERE (source_account_id = $1 OR
\* destination_account_id = $1) AND created_at BETWEEN $2 AND $3.
TransactionsTouching(accountId, startDate, endDate) ==
  {id \in DOMAIN transactions :
     /\ \/ transactions[id].source_account_id = accountId
        \/ transactions[id].destination_account_id = accountId
     /\ startDate <= CreatedAt(id) /\ CreatedAt(id) <= endDate}

\* The sum of the amounts of those rows without the CASE that gives the
\* source side its sign (not the code).
RECURSIVE SumCase_Unsigned(_, _)
SumCase_Unsigned(ids, accountId) ==
  IF ids = {} THEN 0
  ELSE LET id == CHOOSE x \in ids : TRUE
       IN transactions[id].amount + SumCase_Unsigned(ids \ {id}, accountId)

\* SUM(CASE WHEN source_account_id = $1 THEN -amount ELSE amount END) over
\* the rows ids.
RECURSIVE SumCase(_, _)
SumCase(ids, accountId) ==
  IF ids = {} THEN 0
  ELSE LET id == CHOOSE x \in ids : TRUE
       IN (IF transactions[id].source_account_id = accountId
           THEN -transactions[id].amount ELSE transactions[id].amount)
          + SumCase(ids \ {id}, accountId)

TransactionBalanceIn(accountId, startDate, endDate) ==
  LET ids == TransactionsTouching(accountId, startDate, endDate)
  IN PgNumeric(IF ids = {} THEN NullNum ELSE <<SumCase(ids, accountId)>>)

\* LedgerManager.getReconciliationDifference(accountId, startDate, endDate).
getReconciliationDifference(accountId, startDate, endDate) ==
  LET ledger_balance == LedgerBalanceIn(accountId, startDate, endDate)
      transaction_balance == TransactionBalanceIn(accountId, startDate, endDate)
  IN [ledger_balance |-> JsOr(ledger_balance, JsNumber(0)),
      transaction_balance |-> JsOr(transaction_balance, JsNumber(0)),
      difference |-> MathAbs(JsMinus(JsOr(ledger_balance, JsNumber(0)),
                                     JsOr(transaction_balance, JsNumber(0))))]

\* a === b: the same type and the same value.
StrictEquals(a, b) == a.kind # "NaN" /\ a = b

\* SELECT * FROM ledger_entries WHERE transaction_id = $1 has no ORDER BY:
\* rows[0] is any of the rows.  The possible choices of rows[0] for the
\* transactions that have rows.
FirstRows(txns) ==
  LET withRows == {id \in txns : \E e \in ledger_entries : e.transaction_id = id}
  IN {f \in [withRows -> ledger_entries] :
        \A id \in withRows : f[id].transaction_id = id}

\* The body of the for loop for transaction id: the discrepancies it pushes.
\* amount columns arrive as strings and are compared with !==.
DiscrepanciesOf(id, first) ==
  IF id \notin DOMAIN first
  THEN {[type |-> "MISSING_LEDGER_ENTRY", transaction_id |-> id]}
  ELSE IF ~StrictEquals(PgNumeric(<<first[id].amount>>),
                        PgNumeric(<<transactions[id].amount>>))
  THEN {[type |-> "AMOUNT_MISMATCH", transaction_id |-> id]}
  ELSE {}

\* reconcileAccount(accountId, startDate, endDate) is called: pool.connect();
\* BEGIN; SELECT * FROM transactions ... .
ReconcileSelectTransactions(p) ==
  /\ pc[p] = "idle"
  /\ \E c \in ReconcileCalls : call' = [call EXCEPT ![p] = c]
  /\ recon' = [recon EXCEPT ![p] =
                 [transactions |-> TransactionsInPeriod(call'[p].accountId,
                                      call'[p].startDate, call'[p].endDate)]]
  /\ pc' = [pc EXCEPT ![p] = "recon_baseline"]
  /\ UNCHANGED <<ingest, ws, store, reconciliation_reports, existingResult, originalTxn,
                 txnId, uow, error, result>>

\* The SELECT of the ledger balance at period start, then the for loop over
\* the transactions read (one SELECT of ledger_entries each).
ReconcileBaseline(p) ==
  /\ pc[p] = "recon_baseline"
  /\ \E first \in FirstRows(recon[p].transactions) :
       recon' = [recon EXCEPT ![p] =
                   [transactions |-> recon[p].transactions,
                    expectedBalance |-> BalanceBefore(call[p].accountId, call[p].startDate),
                    discrepancies |->
                      UNION {DiscrepanciesOf(id, first) : id \in recon[p].transactions}]]
  /\ pc' = [pc EXCEPT ![p] = "recon_final"]
  /\ UNCHANGED <<ingest, ws, store, reconciliation_reports, call, existingResult,
                 originalTxn, txnId, uow, error, result>>

\* The report reconcileAccount stores and returns.
Report(p, actualBalance) ==
  [id |-> p,
   account_id |-> call[p].accountId,
   period_start |-> call[p].startDate,
   period_end |-> call[p].endDate,
   transaction_count |-> Cardinality(recon[p].transactions),
   discrepancy_count |-> Cardinality(recon[p].discrepancies),
   expected_balance |-> recon[p].expectedBalance,
   actual_balance |-> actualBalance,
   balanced |-> StrictEquals(recon[p].expectedBalance, actualBalance),
   discrepancies |-> recon[p].discrepancies]

\* The SELECT of the final ledger balance.
ReconcileFinal(p) ==
  /\ pc[p] = "recon_final"
  /\ recon' = [recon EXCEPT ![p] =
                 [report |-> Report(p, BalanceUpTo(call[p].accountId, call[p].endDate))]]
  /\ pc' = [pc EXCEPT ![p] = "recon_store"]
  /\ UNCHANGED <<ingest, ws, store, reconciliation_reports, call, existingResult,
                 originalTxn, txnId, uow, error, result>>

\* storeReconciliationReport that also stamps the transactions it covered
\* (not the code).
ReconcileStoreReport_StampsTransactions(p) ==
  /\ pc[p] = "recon_store"
  /\ transactions' = [id \in DOMAIN transactions |->
                        [transactions[id] EXCEPT !.status = "RECONCILED"]]
  /\ reconciliation_reports' = reconciliation_reports \cup {recon[p].report}
  /\ recon' = [recon EXCEPT ![p] = NoRecon]
  /\ result' = [result EXCEPT ![p] = Result("REPORT", NoId, "", 201)]
  /\ pc' = [pc EXCEPT ![p] = "done"]
  /\ UNCHANGED <<ingest, ws, ledger_entries, idempotency_keys, call, existingResult,
                 originalTxn, txnId, uow, error>>

\* storeReconciliationReport writing over the stored reports (not the code).
ReconcileStoreReport_Overwrites(p) ==
  /\ pc[p] = "recon_store"
  /\ reconciliation_reports' = {recon[p].report}
  /\ recon' = [recon EXCEPT ![p] = NoRecon]
  /\ result' = [result EXCEPT ![p] = Result("REPORT", NoId, "", 201)]
  /\ pc' = [pc EXCEPT ![p] = "done"]
  /\ UNCHANGED <<ingest, ws, store, call, existingResult, originalTxn, txnId, uow, error>>

\* storeReconciliationReport (INSERT INTO reconciliation_reports ...
\* RETURNING id), COMMIT, and the return of the report; the route answers 201.
ReconcileStoreReport(p) ==
  /\ pc[p] = "recon_store"
  /\ reconciliation_reports' = reconciliation_reports \cup {recon[p].report}
  /\ recon' = [recon EXCEPT ![p] = NoRecon]
  /\ result' = [result EXCEPT ![p] = Result("REPORT", NoId, "", 201)]
  /\ pc' = [pc EXCEPT ![p] = "done"]
  /\ UNCHANGED <<ingest, ws, store, call, existingResult, originalTxn, txnId, uow, error>>

ReconcilePcs == {"recon_baseline", "recon_final", "recon_store"}

\* A statement of reconcileAccount rejects for a reason of the
\* infrastructure: catch, ROLLBACK, throw; the route answers through
\* handleErrors.
ReconcileFails(p) ==
  /\ \/ /\ pc[p] \in ReconcilePcs
        /\ UNCHANGED call
     \/ /\ pc[p] = "idle"
        /\ \E c \in ReconcileCalls : call' = [call EXCEPT ![p] = c]
  /\ error' = [error EXCEPT ![p] = E_INFRA]
  /\ recon' = [recon EXCEPT ![p] = NoRecon]
  /\ result' = [result EXCEPT ![p] = Result("ERROR", NoId, "", handleErrors(E_INFRA))]
  /\ pc' = [pc EXCEPT ![p] = "done"]
  /\ UNCHANGED <<ingest, ws, store, reconciliation_reports, existingResult, originalTxn,
                 txnId, uow>>

\* POST /accounts/:accountId/reconcile as the README's routes write it: the
\* handler answers 400 when start >= end and the service is never called.
ReconcileRouteReject(p) ==
  /\ pc[p] = "idle"
  /\ \E c \in ReconcileCalls :
       /\ c.startDate >= c.endDate
       /\ call' = [call EXCEPT ![p] = [c EXCEPT !.op = "reconcile_route"]]
  /\ result' = [result EXCEPT ![p] = Result("REJECTED", NoId, "", 400)]
  /\ pc' = [pc EXCEPT ![p] = "done"]
  /\ UNCHANGED <<ingest, ws, store, reconciliation_reports, recon, existingResult,
                 originalTxn, txnId, uow, error>>

\* The calls of the routes that only query: getBalance, getLedgerHistory,
\* getReconciliationDifference and verifyDoubleEntry of the LedgerManager and
\* getReconciliationHistory of the ReconciliationService.
ReadCalls ==
  {[op |-> o, accountId |-> a] :
     o \in {"getBalance", "getLedgerHistory", "getReconciliationHistory"},
     a \in AccountIds}
    \cup {[op |-> "getReconciliationDifference", accountId |-> a,
           startDate |-> s, endDate |-> e] :
            a \in AccountIds, s \in Instants, e \in Instants}
    \cup {[op |-> "verifyDoubleEntry", transactionId |-> id] : id \in TxnIds}

\* One of those routes is served: a single SELECT on the pool, whose rows
\* are sent with res.json (status 200), or whose rejection goes to
\* handleErrors.
LedgerManagerRead(p) ==
  /\ pc[p] = "idle"
  /\ \E c \in ReadCalls : call' = [call EXCEPT ![p] = c]
  /\ \/ /\ result' = [result EXCEPT ![p] = Result("ROWS", NoId, "", 200)]
        /\ UNCHANGED error
     \/ /\ error' = [error EXCEPT ![p] = E_INFRA]
        /\ result' = [result EXCEPT ![p] =
                        Result("ERROR", NoId, "", handleErrors(E_INFRA))]
  /\ pc' = [pc EXCEPT ![p] = "done"]
  /\ UNCHANGED <<ingest, ws, store, reconciliation_reports, recon, existingResult,
                 originalTxn, txnId, uow>>

\* The operations of the engine together with reconciliation.
NextReconcile ==
  \/ Next
  \/ \E p \in Callers :
       \/ ReconcileSelectTransactions(p)
       \/ ReconcileBaseline(p)
       \/ ReconcileFinal(p)
       \/ ReconcileStoreReport(p)
       \/ ReconcileFails(p)
       \/ ReconcileRouteReject(p)
       \/ LedgerManagerRead(p)

\* Reconciliation running with the other operations on a store that holds
\* one applied transaction.
SpecReconcile == InitApplied /\ [][NextReconcile]_vars

\* The ledger rows of the transaction applied before the callers start.
SeedEntries ==
  { EntryRow(SeedId, 1, SeedPayload.source_account_id, -SeedPayload.amount,
             "DEBIT", "SOURCE"),
    EntryRow(SeedId, 2, SeedPayload.destination_account_id, SeedPayload.amount,
             "CREDIT", "DESTINATION") }

\* The ledger after one row of that transaction was tampered with outside
\* the program (a DELETE, or an UPDATE of its amount, run on the database).
CorruptedLedgers ==
  {SeedEntries \ {e} : e \in SeedEntries}
    \cup {(SeedEntries \ {e}) \cup {[e EXCEPT !.amount = e.amount - 1]} :
            e \in SeedEntries}

\* The store of InitApplied with its ledger tampered with.
InitCorrupted ==
  /\ InitCollaborators
  /\ transactions =
       (SeedId :> TxnRow(SeedId, SeedPayload.source_account_id,
                         SeedPayload.destination_account_id, SeedPayload.amount,
                         "COMPLETED", NULL, NoId))
  /\ ledger_entries \in CorruptedLedgers
  /\ idempotency_keys = {KeyRow(SeedKey, SeedId)}
  /\ pc = [p \in Callers |-> "idle"]
  /\ call = [p \in Callers |-> NoCall]
  /\ existingResult = [p \in Callers |-> NoId]
  /\ originalTxn = [p \in Callers |-> <<>>]
  /\ txnId = [p \in Callers |-> NoId]
  /\ uow = [p \in Callers |-> EmptyUow]
  /\ error = [p \in Callers |-> NoError]
  /\ result = [p \in Callers |-> NoResult]
  /\ reconciliation_reports = {}
  /\ recon = [p \in Callers |-> NoRecon]

\* Reconciliation and the other operations on a tampered store.
SpecCorrupted == InitCorrupted /\ [][NextReconcile]_vars

\* ------------------------------------------- the scan order of reconcile

\* The orders in which ORDER BY created_at can return the rows ids: every
\* arrangement that is ascending in created_at; SQL leaves the order of rows
\* with equal keys to the executor.
OrderByCreatedAt(ids) ==
  {o \in [1..Cardinality(ids) -> ids] :
     /\ \A i, j \in DOMAIN o : i # j => o[i] # o[j]
     /\ \A i, j \in DOMAIN o : i < j => CreatedAt(o[i]) <= CreatedAt(o[j])}

\* The transaction SELECT of reconcileAccount has matched a set of rows,
\* whatever the account and the window were.
InitScan ==
  /\ InitCollaborators
  /\ transactions = <<>>
  /\ ledger_entries = {}
  /\ idempotency_keys = {}
  /\ pc = [p \in Callers |-> "idle"]
  /\ call = [p \in Callers |-> NoCall]
  /\ existingResult = [p \in Callers |-> NoId]
  /\ originalTxn = [p \in Callers |-> <<>>]
  /\ txnId = [p \in Callers |-> NoId]
  /\ uow = [p \in Callers |-> EmptyUow]
  /\ error = [p \in Callers |-> NoError]
  /\ result = [p \in Callers |-> NoResult]
  /\ reconciliation_reports = {}
  /\ recon \in [Callers -> {[matched |-> ids] : ids \in SUBSET TxnIds}]

\* The rows reach the for loop in one of the orders the ORDER BY allows.
ReconcileOrderBy(p) ==
  /\ pc[p] = "idle"
  /\ \E o \in OrderByCreatedAt(recon[p].matched) :
       recon' = [recon EXCEPT ![p] = [matched |-> recon[p].matched, rows |-> o]]
  /\ pc' = [pc EXCEPT ![p] = "done"]
  /\ UNCHANGED <<ingest, ws, store, reconciliation_reports, call,
                 existingResult, originalTxn, txnId, uow, error, result>>

NextScan == \E p \in Callers : ReconcileOrderBy(p)

\* The ORDER BY of the transaction SELECT, applied to any set of matched rows.
SpecScan == InitScan /\ [][NextScan]_vars

\* ------------------------------------------- WebSocketManager

\* Room names: `reconciliation:${accountId}`, `account:${accountId}`, and
\* the room of its own id every socket.io socket is in.
ReconciliationRoom(accountId) == <<"reconciliation", accountId>>

AccountRoom(accountId) == <<"account", accountId>>

OwnRoom(s) == <<"socket", ToString(s)>>

\* The accountId a client sends with an event; "" is a missing or empty one.
SubscribeArgs == AccountIds \cup {NoAccount}

\* io.to(roomName).emit: the connected sockets that are in the room.
SocketsIn(roomName) == {s \in connected : roomName \in joined[s]}

\* io.on('connection'): initializeConnection(socket).
initializeConnection(s) ==
  /\ s \notin connected
  /\ connected' = connected \cup {s}
  /\ joined' = [joined EXCEPT ![s] = {OwnRoom(s)}]
  /\ activeConnections' =
       [x \in DOMAIN activeConnections \cup {s} |->
          IF x = s THEN [socketId |-> s, rooms |-> {}] ELSE activeConnections[x]]
  /\ emitted' = Emitted("initializeConnection", "", "", {})
  /\ UNCHANGED <<ingest, store, reconciliation_reports, recon, pc, call,
                 existingResult, originalTxn, txnId, uow, error, result>>

\* handleSubscribe that joins the room without recording it (not the code).
handleSubscribe_NotRecorded(s, accountId) ==
  /\ s \in connected
  /\ IF accountId = NoAccount
     THEN /\ emitted' = Emitted("handleSubscribe", accountId, "error", {s})
          /\ UNCHANGED <<joined, activeConnections>>
     ELSE /\ joined' = [joined EXCEPT ![s] = @ \cup {ReconciliationRoom(accountId)}]
          /\ UNCHANGED activeConnections
          /\ emitted' = Emitted("handleSubscribe", accountId,
                                "subscription_confirmed", {s})
  /\ UNCHANGED <<ingest, store, reconciliation_reports, recon, pc, call,
                 existingResult, originalTxn, txnId, uow, error, result, connected>>

\* socket.on('subscribe_reconciliation'): handleSubscribe(socket, accountId).
handleSubscribe(s, accountId) ==
  /\ s \in connected
  /\ IF accountId = NoAccount
     THEN /\ emitted' = Emitted("handleSubscribe", accountId, "error", {s})
          /\ UNCHANGED <<joined, activeConnections>>
     ELSE /\ joined' = [joined EXCEPT ![s] = @ \cup {ReconciliationRoom(accountId)}]
          /\ activeConnections' =
               IF s \in DOMAIN activeConnections
               THEN [activeConnections EXCEPT
                       ![s].rooms = @ \cup {ReconciliationRoom(accountId)}]
               ELSE activeConnections
          /\ emitted' = Emitted("handleSubscribe", accountId,
                                "subscription_confirmed", {s})
  /\ UNCHANGED <<ingest, store, reconciliation_reports, recon, pc, call,
                 existingResult, originalTxn, txnId, uow, error, result, connected>>

\* socket.on('unsubscribe_reconciliation'): handleUnsubscribe(socket,
\* accountId); there is no test of accountId.
handleUnsubscribe(s, accountId) ==
  /\ s \in connected
  /\ joined' = [joined EXCEPT ![s] = @ \ {ReconciliationRoom(accountId)}]
  /\ activeConnections' =
       IF s \in DOMAIN activeConnections
       THEN [activeConnections EXCEPT
               ![s].rooms = @ \ {ReconciliationRoom(accountId)}]
       ELSE activeConnections
  /\ emitted' = Emitted("handleUnsubscribe", accountId,
                        "unsubscription_confirmed", {s})
  /\ UNCHANGED <<ingest, store, reconciliation_reports, recon, pc, call,
                 existingResult, originalTxn, txnId, uow, error, result, connected>>

\* socket.on('ping'): socket.emit('pong').
handlePing(s) ==
  /\ s \in connected
  /\ emitted' = Emitted("ping", "", "pong", {s})
  /\ UNCHANGED <<ingest, store, reconciliation_reports, recon, pc, call,
                 existingResult, originalTxn, txnId, uow, error, result,
                 connected, joined, activeConnections>>

\* The socket closes (the client leaves, or cleanupStaleConnections
\* disconnects it): socket.io takes it out of its rooms and fires
\* 'disconnect', whose handler is handleDisconnect(socket).
handleDisconnect(s) ==
  /\ s \in connected
  /\ connected' = connected \ {s}
  /\ joined' = [joined EXCEPT ![s] = {}]
  /\ activeConnections' =
       [x \in DOMAIN activeConnections \ {s} |-> activeConnections[x]]
  /\ emitted' = Emitted("handleDisconnect", "", "", {})
  /\ UNCHANGED <<ingest, store, reconciliation_reports, recon, pc, call,
                 existingResult, originalTxn, txnId, uow, error, result>>

\* The three reconciliation broadcasts: io.to(`reconciliation:${accountId}`)
\* .emit(event, message).
ReconciliationEvents ==
  {"reconciliation_progress", "reconciliation_complete", "reconciliation_error"}

broadcastReconciliation(event, accountId) ==
  /\ emitted' = Emitted("broadcastReconciliation", accountId, event,
                        SocketsIn(ReconciliationRoom(accountId)))
  /\ UNCHANGED <<ingest, store, reconciliation_reports, recon, pc, call,
                 existingResult, originalTxn, txnId, uow, error, result,
                 connected, joined, activeConnections>>

\* broadcastTransactionUpdate: io.to(`account:${accountId}`).emit(
\* 'transaction_update', message).
broadcastTransactionUpdate(accountId) ==
  /\ emitted' = Emitted("broadcastTransactionUpdate", accountId,
                        "transaction_update", SocketsIn(AccountRoom(accountId)))
  /\ UNCHANGED <<ingest, store, reconciliation_reports, recon, pc, call,
                 existingResult, originalTxn, txnId, uow, error, result,
                 connected, joined, activeConnections>>

\* The events of the sockets and the calls of the manager's broadcasts.
NextWs ==
  \/ \E s \in SocketIds :
       \/ initializeConnection(s)
       \/ \E a \in SubscribeArgs : handleSubscribe(s, a) \/ handleUnsubscribe(s, a)
       \/ handlePing(s)
       \/ handleDisconnect(s)
  \/ \E a \in AccountIds :
       \/ \E e \in ReconciliationEvents : broadcastReconciliation(e, a)
       \/ broadcastTransactionUpdate(a)

SpecWs == Init /\ [][NextWs]_vars

\* ------------------------------------------- asynchronous ingest (README)

\* The columns of the two tables the status query joins.
TransactionsColumns ==
  {"id", "source_account_id", "destination_account_id", "amount", "status",
   "created_at"}

IdempotencyKeysColumns ==
  {"id", "idempotency_key", "transaction_id", "created_at"}

\* The unqualified select list of the status query.
StatusSelectList ==
  {"id", "source_account_id", "destination_account_id", "amount", "status",
   "created_at"}

\* PostgreSQL rejects a statement that names, without a qualifier, a column
\* both joined tables have (42702).
E_AMBIGUOUS == [code |-> "42702", message |-> "column reference is ambiguous"]

AmbiguousColumns(selectList) ==
  selectList \cap TransactionsColumns \cap IdempotencyKeysColumns

\* The SELECT ... FROM transactions t JOIN idempotency_keys ik ON t.id =
\* ik.transaction_id WHERE ik.idempotency_key = $1: the error it raises, or
\* the ids of the rows it returns.
StatusSelect(k) ==
  IF AmbiguousColumns(StatusSelectList) # {}
  THEN [error |-> E_AMBIGUOUS, rows |-> {}]
  ELSE [error |-> NoError,
        rows |-> {r.transaction_id : r \in {x \in idempotency_keys :
                                               x.idempotency_key = k}}]

\* What POST /transactions of the queueing routes receives.
IngestCalls ==
  {[op |-> "ingest", transaction |-> t, idempotencyKey |-> k] :
     t \in {x \in Payloads : middlewareErrors(x) = <<>>}, k \in Keys}

\* POST /transactions: idempotencyCache.get(idempotencyKey); a cached outcome
\* is answered with 200, otherwise the request is published to the queue and
\* answered with 202; a rejection of either call goes to handleErrors.
IngestSubmit(p) ==
  /\ pc[p] = "idle"
  /\ \E c \in IngestCalls :
       /\ call' = [call EXCEPT ![p] = c]
       /\ \/ /\ cache[c.idempotencyKey] # Absent
             /\ result' = [result EXCEPT ![p] =
                             Result("CACHED", cache[c.idempotencyKey].transaction_id,
                                    "", 200)]
             /\ UNCHANGED <<queue, error>>
          \/ /\ cache[c.idempotencyKey] = Absent
             /\ queue' = [queue EXCEPT ![c.idempotencyKey] = @ + 1]
             /\ result' = [result EXCEPT ![p] = Result("ACCEPTED", NoId, "", 202)]
             /\ UNCHANGED error
          \/ /\ error' = [error EXCEPT ![p] = E_INFRA]
             /\ result' = [result EXCEPT ![p] =
                             Result("ERROR", NoId, "", handleErrors(E_INFRA))]
             /\ UNCHANGED queue
  /\ pc' = [pc EXCEPT ![p] = "done"]
  /\ UNCHANGED <<ws, store, reconciliation_reports, recon, cache,
                 existingResult, originalTxn, txnId, uow>>

\* GET /transactions/status/:idempotencyKey: a cached SUCCESS or DUPLICATE
\* outcome is answered COMPLETED; otherwise the join is run on the pool: a
\* row is answered COMPLETED, no row PROCESSING (202), and a rejection goes
\* to handleErrors.
StatusQuery(p) ==
  /\ pc[p] = "idle"
  /\ \E k \in Keys :
       /\ call' = [call EXCEPT ![p] = [op |-> "status", idempotencyKey |-> k]]
       /\ IF cache[k].status \in {"SUCCESS", "DUPLICATE"}
          THEN /\ result' = [result EXCEPT ![p] =
                               Result("COMPLETED", cache[k].transaction_id, "", 200)]
               /\ UNCHANGED error
          ELSE LET q == StatusSelect(k)
               IN IF q.error # NoError
                  THEN /\ error' = [error EXCEPT ![p] = q.error]
                       /\ result' = [result EXCEPT ![p] =
                                       Result("ERROR", NoId, "", handleErrors(q.error))]
                  ELSE /\ UNCHANGED error
                       /\ result' = [result EXCEPT ![p] =
                            IF q.rows # {}
                            THEN Result("COMPLETED", CHOOSE id \in q.rows : TRUE, "", 200)
                            ELSE Result("PROCESSING", NoId, "", 202)]
  /\ pc' = [pc EXCEPT ![p] = "done"]
  /\ UNCHANGED <<ws, ingest, store, reconciliation_reports, recon,
                 existingResult, originalTxn, txnId, uow>>

\* The worker has finished a message: the key is bound in the store and the
\* outcome of its processTransaction call is cached under the key with a
\* time to live.
CacheSet(k) ==
  /\ cache[k] = Absent
  /\ \E r \in idempotency_keys :
       /\ r.idempotency_key = k
       /\ cache' = [cache EXCEPT ![k] =
                      [status |-> "SUCCESS", transaction_id |-> r.transaction_id]]
  /\ UNCHANGED <<ws, queue, store, reconciliation_reports, recon, pc, call,
                 existingResult, originalTxn, txnId, uow, error, result>>

\* The time to live of a cached outcome runs out (or the cache evicts it).
CacheExpire(k) ==
  /\ cache[k] # Absent
  /\ cache' = [cache EXCEPT ![k] = Absent]
  /\ UNCHANGED <<ws, queue, store, reconciliation_reports, recon, pc, call,
                 existingResult, originalTxn, txnId, uow, error, result>>

\* The queueing routes, the worker's processTransaction calls (the apply
\* calls of Next) and the cache.
NextIngest ==
  \/ Next
  \/ \E p \in Callers : IngestSubmit(p) \/ StatusQuery(p)
  \/ \E k \in Keys : CacheSet(k) \/ CacheExpire(k)

SpecIngest == Init /\ [][NextIngest]_vars

\* ------------------------------------------------- refunds and settlement

\* The committed refund transactions of original id.
Refunds(id) ==
  {r \in DOMAIN transactions :
     /\ transactions[r].type = "REFUND"
     /\ transactions[r].parent_transaction_id = id}

\* The committed refunds of original id for its full amount.
FullRefunds(id) ==
  {r \in Refunds(id) : transactions[r].amount = transactions[id].amount}

Refunding(p) == call[p].op = "refund"

\* C11: over any sequence or interleaving of refund calls on one original
\* transaction, at most one refund transaction for its full amount is ever
\* committed.
C11_AtMostOneFullRefund ==
  \A id \in DOMAIN transactions : Cardinality(FullRefunds(id)) <= 1

\* C12: a refund succeeds only when the original it looked up exists and is
\* COMPLETED; for an original in another status it fails and creates nothing.
C12_RefundOnlyOfCompleted ==
  [][\A p \in Callers :
       (Refunding(p) /\ pc[p] = "commit" /\ result'[p].status = "REFUND")
         => /\ originalTxn[p] # <<>>
            /\ originalTxn[p].status = "COMPLETED"]_vars

\* C13: only a refund for the full original amount moves the original to
\* REFUNDED: an original that is REFUNDED has a full refund.
C13_PartialRefundKeepsStatus ==
  \A id \in DOMAIN transactions :
    transactions[id].status = "REFUNDED" => FullRefunds(id) # {}

\* C14: refund round-trip.  For a transaction applied from A to B and then
\* refunded for its full amount, getBalance of every account is worth what
\* it is worth over the ledger without the transaction and its refund (the
\* balances before the apply, whatever else was posted meanwhile).
C14_RefundRoundTrip ==
  \A id \in DOMAIN transactions :
    \A r \in FullRefunds(id) :
      \A a \in AccountIds :
        /\ ToNumber(getBalance(a)).kind = "number"
        /\ ToNumber(getBalance(a)) =
             ToNumber(BalanceIn(ledger_entries \ (EntriesOf(id) \cup EntriesOf(r)), a))

\* C14 witness: a caller applied A -> B, another refunded it in full, and
\* the balances of A and B are those of the store before the apply.
C14_Witness ==
  \E p, q \in Callers :
    /\ result[p].status = "SUCCESS"
    /\ call[p].transaction.source_account_id = "A"
    /\ call[p].transaction.destination_account_id = "B"
    /\ result[q].status = "REFUND"
    /\ call[q].transactionId = NewId(p)
    /\ NewId(q) \in FullRefunds(NewId(p))
    /\ DOMAIN transactions = {SeedId, NewId(p), NewId(q)}
    /\ getBalance("A") = JsString(NumericText(SeedPayload.amount))
    /\ getBalance("B") = JsString(NumericText(-SeedPayload.amount))

\* C15: a refund that succeeds commits exactly one new transaction, with the
\* original's accounts swapped, the refund amount, type REFUND and the
\* original as its parent, together with its own debit and credit; it marks
\* the original REFUNDED and leaves the original's amount, accounts and
\* ledger entries, and every other row, as they were.
C15_RefundCreatesReversal ==
  [][\A p \in Callers :
       (Refunding(p) /\ pc[p] = "commit" /\ result'[p].status = "REFUND") =>
         LET o == call[p].transactionId
             r == NewId(p)
         IN /\ o \in DOMAIN transactions /\ r \notin DOMAIN transactions
            /\ DOMAIN transactions' = DOMAIN transactions \cup {r}
            /\ result'[p].transaction_id = r
            /\ transactions'[r].source_account_id = transactions[o].destination_account_id
            /\ transactions'[r].destination_account_id = transactions[o].source_account_id
            /\ transactions'[r].amount = call[p].refundAmount
            /\ transactions'[r].parent_transaction_id = o
            /\ transactions'[r].type = "REFUND"
            /\ BalancedPair(r)'
            /\ ledger_entries' = ledger_entries \cup EntriesOf(r)'
            /\ transactions'[o] = [transactions[o] EXCEPT !.status = "REFUNDED"]
            /\ \A x \in DOMAIN transactions \ {o} : transactions'[x] = transactions[x]
            /\ idempotency_keys' = idempotency_keys]_vars

\* C15 witness: a refund returned; its row is committed with the original as
\* parent and the original is REFUNDED.
C15_Witness ==
  \E p \in Callers :
    /\ result[p].status = "REFUND"
    /\ NewId(p) \in Refunds(call[p].transactionId)
    /\ BalancedPair(NewId(p))
    /\ transactions[call[p].transactionId].status = "REFUNDED"

Settling(p) == call[p].op = "partial"

\* The outstanding remainder of a row: amount_remaining, and the whole amount
\* while the column holds no value (nothing has been settled).
Remainder(row) ==
  IF row.amount_remaining = NullNum THEN row.amount ELSE row.amount_remaining[1]

\* C16: a partial payment of more than the outstanding remainder is rejected
\* and changes nothing, so that no remainder becomes negative.
C16_OverpaymentRejected ==
  [][\A p \in Callers :
       (/\ pc[p] = "idle" /\ Settling(p)'
        /\ call'[p].transactionId \in DOMAIN transactions
        /\ call'[p].paidAmount > Remainder(transactions[call'[p].transactionId]))
       => /\ result'[p].status # "SETTLED"
          /\ store' = store
          /\ Remainder(transactions'[call'[p].transactionId]) >= 0]_vars

\* C17: a partial payment reduces the outstanding remainder by exactly
\* paidAmount and sets the status to COMPLETED when the new remainder is zero
\* and to PARTIAL otherwise.
C17_SettlementReducesRemainder ==
  [][\A p \in Callers :
       (/\ pc[p] = "idle" /\ Settling(p)'
        /\ call'[p].transactionId \in DOMAIN transactions
        /\ call'[p].paidAmount <= Remainder(transactions[call'[p].transactionId]))
       => LET id == call'[p].transactionId
          IN /\ Remainder(transactions'[id]) =
                  Remainder(transactions[id]) - call'[p].paidAmount
             /\ transactions'[id].status =
                  IF Remainder(transactions'[id]) = 0 THEN "COMPLETED" ELSE "PARTIAL"]_vars

\* The status changes of the transaction state machine.
AllowedTransitions ==
  { <<"PENDING", "COMPLETED">>, <<"COMPLETED", "REFUNDED">>,
    <<"PENDING", "PARTIAL">>, <<"COMPLETED", "PARTIAL">>,
    <<"PARTIAL", "PARTIAL">>, <<"PARTIAL", "COMPLETED">> }

\* C18: every status change of a committed transaction is one of
\* AllowedTransitions; a REFUNDED transaction never changes status again and
\* none returns to PENDING.
C18_StatusTransitions ==
  [][\A id \in DOMAIN transactions :
       transactions'[id].status # transactions[id].status =>
         <<transactions[id].status, transactions'[id].status>> \in AllowedTransitions]_vars

\* C19: once a transaction is COMPLETED, no operation moves it to a status
\* other than REFUNDED.
C19_CompletedLeavesOnlyToRefunded ==
  [][\A id \in DOMAIN transactions :
       (transactions[id].status = "COMPLETED"
        /\ transactions'[id].status # "COMPLETED")
       => transactions'[id].status = "REFUNDED"]_vars

\* Transaction id has exactly one DEBIT entry and exactly one CREDIT entry,
\* and their signed amounts sum to zero.
OneDebitOneCreditZeroSum(id) ==
  /\ Cardinality({e \in EntriesOf(id) : e.entry_type = "DEBIT"}) = 1
  /\ Cardinality({e \in EntriesOf(id) : e.entry_type = "CREDIT"}) = 1
  /\ Cardinality(EntriesOf(id)) = 2
  /\ SumAmounts(EntriesOf(id)) = 0

\* C20: verifyDoubleEntry reports balanced = true if and only if the
\* transaction has exactly one DEBIT and exactly one CREDIT entry whose
\* signed amounts sum to zero; any other entry set is reported as not
\* balanced.
C20_VerifyReportsBalance ==
  \A id \in TxnIds :
    (verifyDoubleEntry(id).balanced = "true") <=> OneDebitOneCreditZeroSum(id)

\* C21: verify on a transaction id that is not in the store is answered as
\* not found (404), and not with the 'not balanced' result of an existing
\* transaction.
C21_VerifyUnknownIsNotFound ==
  \A id \in TxnIds :
    id \notin DOMAIN transactions =>
      VerifyDoubleEntryRoute(id).http = 404

\* The committed ledger rows posted against account a.
EntriesOn(a) == {e \in ledger_entries : e.account_id = a}

\* C22: for every account, getBalance is worth the sum of the signed amounts
\* of the ledger entries posted against it, and is 0 for an account with no
\* entries; after one apply of amount x from A to B on an empty ledger,
\* getBalance(A) is worth -x and getBalance(B) is worth +x.
C22_BalanceIsLedgerSum ==
  /\ \A a \in AccountIds :
       /\ ToNumber(getBalance(a)).kind = "number"
       /\ ToNumber(getBalance(a)).n = SumAmounts(EntriesOn(a))
       /\ EntriesOn(a) = {} => getBalance(a) = JsNumber(0)
  /\ \A p \in Callers :
       (result[p].status = "SUCCESS" /\ DOMAIN transactions = {NewId(p)}) =>
         /\ ToNumber(getBalance(call[p].transaction.source_account_id)).n =
              -call[p].transaction.amount
         /\ ToNumber(getBalance(call[p].transaction.destination_account_id)).n =
              call[p].transaction.amount

\* C22 witness: one apply of amount 1 from A to B on an empty ledger.
C22_Witness ==
  \E p \in Callers :
    /\ result[p].status = "SUCCESS"
    /\ DOMAIN transactions = {NewId(p)}
    /\ call[p].transaction = Payload("A", "B", 1, TRUE)
    /\ getBalance("A") = JsString("-1.00")
    /\ getBalance("B") = JsString("1.00")

\* The transactions created in the window [s, e] that touch account a.
InWindow(a, s, e) ==
  {id \in DOMAIN transactions :
     /\ s <= CreatedAt(id) /\ CreatedAt(id) <= e
     /\ a \in {transactions[id].source_account_id,
               transactions[id].destination_account_id}}

\* The signed amount of transaction id for account a: negative where a is
\* the source, positive where it is the destination.
SignedAmount(id, a) ==
  IF transactions[id].source_account_id = a
  THEN -transactions[id].amount ELSE transactions[id].amount

RECURSIVE SignedSum(_, _)
SignedSum(ids, a) ==
  IF ids = {} THEN 0
  ELSE LET id == CHOOSE x \in ids : TRUE
       IN SignedAmount(id, a) + SignedSum(ids \ {id}, a)

\* The ledger-derived balance of account a over the rows created up to t.
LedgerUpTo(a, t) ==
  SumAmounts({e \in EntriesOn(a) : CreatedAt(e.transaction_id) <= t})

\* The transaction-derived expected ending balance of a window: the ledger
\* baseline before its start plus the signed sum of its transactions.
ExpectedEnding(a, s, e) ==
  SumAmounts({x \in EntriesOn(a) : CreatedAt(x.transaction_id) < s})
    + SignedSum(InWindow(a, s, e), a)

\* No caller other than p has started: the store is the one p's call ran on.
OnlyCaller(p) == \A q \in Callers \ {p} : pc[q] = "idle"

\* C23: the balanced flag of a report is true if and only if the
\* ledger-derived ending balance equals the transaction-derived expected
\* balance of its window.
C23_BalancedFlag ==
  \A r \in reconciliation_reports :
    OnlyCaller(r.id) =>
      (r.balanced <=>
         LedgerUpTo(r.account_id, r.period_end) =
           ExpectedEnding(r.account_id, r.period_start, r.period_end))

\* The report's window contains the transaction applied before the callers.
CoversSeed(r) ==
  r.period_start <= CreatedAt(SeedId) /\ CreatedAt(SeedId) <= r.period_end

\* Account a is touched by transaction id, which has no ledger row for it.
EntryMissing(id, a) ==
  /\ a \in {transactions[id].source_account_id, transactions[id].destination_account_id}
  /\ ~\E e \in EntriesOf(id) : e.account_id = a

\* C24: on a store where the ledger entry of one applied transaction was
\* deleted out-of-band and everything else is intact, a reconcile of the
\* account over a window containing the transaction reports exactly one
\* MISSING_LEDGER_ENTRY discrepancy, for that transaction, and balanced =
\* false.
C24_DetectsMissingEntry ==
  \A r \in reconciliation_reports :
    (OnlyCaller(r.id) /\ CoversSeed(r) /\ EntryMissing(SeedId, r.account_id)) =>
      /\ r.discrepancies =
           {[type |-> "MISSING_LEDGER_ENTRY", transaction_id |-> SeedId]}
      /\ r.discrepancy_count = 1
      /\ ~r.balanced

\* The ledger row of transaction id on account a differs from the signed
\* amount the transaction expects for that side.
SideEntryDiffers(id, a) ==
  \E e \in EntriesOf(id) : e.account_id = a /\ e.amount # SignedAmount(id, a)

\* C25: a report carries an AMOUNT_MISMATCH for a transaction of its window
\* if and only if the ledger row of the reconciled account's side differs
\* from the transaction's signed amount for that side; when every
\* transaction of the window has exactly the pair apply posts, the report
\* has no discrepancy and is balanced (windows with start before end).
C25_AmountMismatch ==
  \A r \in reconciliation_reports :
    (OnlyCaller(r.id) /\ r.period_start < r.period_end) =>
      LET txns == InWindow(r.account_id, r.period_start, r.period_end)
      IN /\ \A id \in txns :
              ([type |-> "AMOUNT_MISMATCH", transaction_id |-> id] \in r.discrepancies)
                <=> SideEntryDiffers(id, r.account_id)
         /\ (\A id \in txns : BalancedPair(id)) =>
              (r.discrepancies = {} /\ r.balanced)

\* Caller p's reconcileAccount call ends in this step.
ReconcileEnds(p) ==
  /\ pc[p] \in ReconcilePcs \cup {"idle"}
  /\ pc'[p] = "done"
  /\ call'[p].op = "reconcile"

ReadOps ==
  {"reconcile", "reconcile_route", "getBalance", "getLedgerHistory",
   "getReconciliationHistory", "getReconciliationDifference",
   "verifyDoubleEntry"}

\* C27: every step of reconcile, getReconciliationHistory,
\* getReconciliationDifference, getBalance, getLedgerHistory and
\* verifyDoubleEntry leaves transactions, ledger_entries and
\* idempotency_keys as they were, whether the call succeeds or fails; of
\* these only reconcile changes the stored reports.
C27_ReadsLeaveStoreUnchanged ==
  [][ \A p \in Callers :
        (pc'[p] # pc[p] /\ call'[p].op \in ReadOps) =>
          /\ store' = store
          /\ (reconciliation_reports' # reconciliation_reports) =>
               call'[p].op = "reconcile" ]_vars

\* On a store that holds rows, one caller's reconcile has stored its report
\* and the other caller's query has been answered.
C27_Witness ==
  /\ transactions # <<>> /\ ledger_entries # {} /\ idempotency_keys # {}
  /\ \E p, q \in Callers :
       /\ call[p].op = "reconcile" /\ result[p].status = "REPORT"
       /\ call[q].op \in ReadOps \ {"reconcile", "reconcile_route"}
       /\ result[q].status = "ROWS"

\* C28: a reconciliation request whose startDate is not before its endDate
\* is answered with a validation error on every entry path, and no report
\* is stored for it.
C28_InvertedWindowRejected ==
  /\ \A r \in reconciliation_reports : r.period_start < r.period_end
  /\ \A p \in Callers :
       (/\ pc[p] = "done"
        /\ call[p].op \in {"reconcile", "reconcile_route"}
        /\ call[p].startDate >= call[p].endDate
        /\ error[p] = NoError) =>
         (result[p].status = "REJECTED" /\ result[p].http = 400)

\* No row is ever created inside the window [s, e].
NoRowIn(s, e) ==
  \A id \in TxnIds : ~(s <= CreatedAt(id) /\ CreatedAt(id) <= e)

\* C29: a reconcile that runs while apply and refund calls commit reports
\* what one committed state of the store gives: no MISSING_LEDGER_ENTRY for
\* a transaction whose entries are committed, and, for a window in which no
\* row is created (the ledger sum before its start equals the sum up to its
\* end in every committed state), balanced = true.
C29_ConsistentSnapshot ==
  \A r \in reconciliation_reports :
    /\ \A d \in r.discrepancies :
         d.type = "MISSING_LEDGER_ENTRY" => EntriesOf(d.transaction_id) = {}
    /\ (r.period_start < r.period_end /\ NoRowIn(r.period_start, r.period_end)) =>
         r.balanced

\* C30: in every step of every operation, each committed ledger entry and
\* each committed idempotency record is still there afterwards with all of
\* its attribute values, and no row takes the identity of another: both
\* sets only grow.
C30_EntriesAndKeysAppendOnly ==
  [][ /\ ledger_entries \subseteq ledger_entries'
      /\ idempotency_keys \subseteq idempotency_keys'
      /\ \A e \in ledger_entries : \A f \in ledger_entries' :
           f.id = e.id => f = e
      /\ \A r \in idempotency_keys : \A q \in idempotency_keys' :
           q.idempotency_key = r.idempotency_key => q = r ]_vars

\* The transaction applied first was refunded by one caller while the other
\* applied a transaction of its own: the first entries and the first key are
\* still there beside the new ones.
C30_Witness ==
  /\ SeedEntries \subseteq ledger_entries
  /\ KeyRow(SeedKey, SeedId) \in idempotency_keys
  /\ \E p, q \in Callers :
       /\ call[p].op = "refund" /\ result[p].status = "REFUND"
       /\ Applied(q) /\ result[q].status = "SUCCESS"
  /\ Cardinality(ledger_entries) = 6
  /\ Cardinality(idempotency_keys) = 2

\* ---- asynchronous ingest and status

\* The callers whose submission on the queueing route carried key k.
Ingested(k) ==
  {p \in Callers : call[p].op = "ingest" /\ call[p].idempotencyKey = k}

\* C31: on the asynchronous ingest path, of the submissions that present
\* one idempotency key only the first is published to the queue: every later
\* one, whenever it arrives, is answered 200 with the recorded result and
\* publishes nothing.
C31_DuplicateIngestNotRepublished ==
  \A k \in Keys :
    /\ queue[k] <= 1
    /\ Cardinality({p \in Ingested(k) : result[p].status = "ACCEPTED"}) <= 1

\* Caller p's status query is answered in this step.
StatusAnswered(p) ==
  pc[p] = "idle" /\ pc'[p] = "done" /\ call'[p].op = "status"

\* C32: a status query for a key that is bound in the durable store is
\* answered COMPLETED, whether or not the cache holds an entry for it;
\* PROCESSING is answered only when neither the store nor the cache has the
\* key; and after a COMPLETED answer for a key no later query for it is
\* answered PROCESSING.
C32_StatusFallsBackToStore ==
  [][ \A p \in Callers :
        StatusAnswered(p) =>
          LET k == call'[p].idempotencyKey
          IN /\ KeyRows(k) # {} => result'[p].status = "COMPLETED"
             /\ result'[p].status = "PROCESSING" =>
                  /\ KeyRows(k) = {} /\ cache[k] = Absent
                  /\ ~\E q \in Callers :
                        /\ call[q].op = "status" /\ call[q].idempotencyKey = k
                        /\ result[q].status = "COMPLETED" ]_vars

\* ---- scan order and events

\* Caller p's transaction SELECT has returned its rows.
Scanned(p) == pc[p] = "done" /\ "rows" \in DOMAIN recon[p]

C34_TerminalEventPerRun ==
  [][ \A p \in Callers :
        ReconcileEnds(p) =>
          /\ emitted' # emitted
          /\ emitted'.accountId = call'[p].accountId
          /\ emitted'.event = IF error'[p] = NoError
                              THEN "reconciliation_complete"
                              ELSE "reconciliation_error" ]_vars

\* The reconciliation rooms among the rooms socket s is in.
ReconciliationRoomsOf(s) == {r \in joined[s] : r[1] = "reconciliation"}

\* C38: after every subscribe, unsubscribe and disconnect event, the
\* connections tracked are the connected sockets and the rooms recorded for
\* each are exactly the reconciliation rooms it is in; a subscribe with an
\* empty accountId emits an error and changes no membership.
C38_RoomsTrackMembership ==
  [][ /\ DOMAIN activeConnections' = connected'
      /\ \A s \in connected' :
           activeConnections'[s].rooms = ReconciliationRoomsOf(s)'
      /\ (emitted'.by = "handleSubscribe" /\ emitted'.accountId = NoAccount) =>
           /\ emitted'.event = "error"
           /\ joined' = joined
           /\ activeConnections' = activeConnections ]_vars

\* One socket has just disconnected while the other stays subscribed to the
\* rooms of both accounts.
C38_Witness ==
  /\ emitted.by = "handleDisconnect"
  /\ \E s \in connected :
       activeConnections[s].rooms =
         {ReconciliationRoom(a) : a \in AccountIds}

\* C39: every event the manager broadcasts for an account (transaction_update
\* and the three reconciliation events) is delivered to every client that
\* has subscribed to the account and not unsubscribed.
C39_SubscribersReceiveBroadcasts ==
  [][ emitted'.by \in {"broadcastReconciliation", "broadcastTransactionUpdate"} =>
        \A s \in DOMAIN activeConnections :
          ReconciliationRoom(emitted'.accountId) \in activeConnections[s].rooms =>
            s \in emitted'.to ]_vars

\* ---- conservation, differences and refund totals

\* The sum of getBalance over the accounts of a set, as amounts.
RECURSIVE SumBalances(_)
SumBalances(accounts) ==
  IF accounts = {} THEN 0
  ELSE LET a == CHOOSE x \in accounts : TRUE
       IN ToNumber(getBalance(a)).n + SumBalances(accounts \ {a})

\* C35: in every state reached by interleaved apply, refund and partial
\* settlement calls, failed and duplicate ones included, the signed amounts
\* of all committed ledger entries sum to zero, and so do the balances of
\* all accounts.
C35_Conservation ==
  /\ SumAmounts(ledger_entries) = 0
  /\ SumBalances({e.account_id : e \in ledger_entries} \cup AccountIds) = 0

\* A refund and a failed call have both ended and the ledger holds the pair
\* of the first transaction and the pair of its reversal.
C35_Witness ==
  /\ Cardinality(ledger_entries) = 4
  /\ \E p, q \in Callers :
       /\ result[p].status = "REFUND"
       /\ result[q].status = "ERROR"

\* C36: on a store produced by successful apply and refund calls,
\* getReconciliationDifference reports difference = 0 for every account and
\* every window: the ledger sum of the window equals the signed sum of the
\* transactions of the window that touch the account.
C36_DifferenceIsZero ==
  \A a \in AccountIds : \A s \in Instants : \A e \in Instants :
    LET d == getReconciliationDifference(a, s, e)
    IN /\ d.difference = JsNumber(0)
       /\ ToNumber(d.ledger_balance).n = SignedSum(InWindow(a, s, e), a)
       /\ ToNumber(d.transaction_balance).n = SignedSum(InWindow(a, s, e), a)

\* The first transaction (B to A, 2) was refunded by 1: over the window that
\* holds both, A's two sums are 1 and their difference is 0.
C36_Witness ==
  /\ \E p \in Callers : result[p].status = "REFUND" /\ call[p].refundAmount = 1
  /\ LET d == getReconciliationDifference("A", 0, 4)
     IN /\ d.ledger_balance = JsString("1.00")
        /\ d.transaction_balance = JsString("1.00")
        /\ d.difference = JsNumber(0)

\* The sum of the amounts of the refund rows ids.
RECURSIVE RefundedTotal(_)
RefundedTotal(ids) ==
  IF ids = {} THEN 0
  ELSE LET r == CHOOSE x \in ids : TRUE
       IN transactions[r].amount + RefundedTotal(ids \ {r})

\* C37: for every original transaction the amounts of its committed refunds
\* sum to at most its own amount, and no refund of a zero or negative amount
\* is accepted.
C37_RefundsWithinOriginal ==
  /\ \A id \in DOMAIN transactions :
       RefundedTotal(Refunds(id)) <= transactions[id].amount
  /\ \A p \in Callers :
       (Refunding(p) /\ result[p].status = "REFUND") => call[p].refundAmount > 0

====
